---- MODULE Spec2Model ----
(***************************************************************************)
(* The task-graph orchestrator of ArchitectAI Studio:                      *)
(* IntelligentOrchestrator (planner, workflow executor) and the            *)
(* SimpleAzureAgent it calls.  Strings are sequences of one-character      *)
(* strings, so that lower-casing, substring search and concatenation are   *)
(* computed as Python computes them.  AgentTask objects live in a heap     *)
(* (object id -> fields); the task lists hold object ids, as the Python    *)
(* lists hold references.                                                  *)
(***************************************************************************)
EXTENDS Integers, Sequences, FiniteSets, TLC

VARIABLES
    pc,               \* position of the request: "plan", "loop", "run", "done",
                      \* "raised", "returned"
    user_message,     \* the request's text
    user_images,      \* the request's images: None or a list of blobs
    heap,             \* live AgentTask objects: object id -> fields
    tasks,            \* the list handed to _execute_workflow (object ids)
    remaining_tasks,  \* _execute_workflow's remaining_tasks (object ids)
    ready_tasks,      \* the snapshot iterated by the current pass (object ids)
    idx,              \* position of the for-loop in ready_tasks
    results,          \* the results dict, in insertion order: <<[key, value], ...>>
    call,             \* the latest agent.process_request call and its outcome
    calls,            \* per TaskType, how often its agent was invoked (saturating)
    injected,         \* the TaskTypes appended by dynamic routing in this run
    session_id,       \* the request's session id
    conversation_memory,  \* self.conversation_memory: session id -> entry
    returned,         \* the latest value returned by _compile_final_output, or NotReturned
    previous,         \* the value it returned the time before, or NotReturned
    planned,          \* per request input, the list _plan_workflow returned first
    executed,         \* the TaskTypes invoked in this run, in order of first invocation
    other,            \* the locals of a second request or run that is not running
                      \* now, or NoOther
    ctx               \* FixedAzureOrchestrator.process_request's local `context`

vars == <<pc, user_message, user_images, heap, tasks, remaining_tasks,
          ready_tasks, idx, results, call, calls, injected,
          session_id, conversation_memory, returned, previous, planned,
          executed, other, ctx>>

-----------------------------------------------------------------------------
(* Bounds of the model *)

\* Invocation counters stop counting here.
MaxCalls == 2

\* Longest task list handed directly to _execute_workflow.
MaxTasks == 2

-----------------------------------------------------------------------------
(* Python values *)

\* Python's None (no text equals it).
None == <<"NoneType">>

Min(a, b) == IF a < b THEN a ELSE b

\* bool(x) of a list or None.
Truthy(x) == x # None /\ x # <<>>

UpperCase == <<"A", "B", "C", "D", "E", "F", "G", "H", "I", "J", "K", "L", "M",
               "N", "O", "P", "Q", "R", "S", "T", "U", "V", "W", "X", "Y", "Z">>

LowerCase == <<"a", "b", "c", "d", "e", "f", "g", "h", "i", "j", "k", "l", "m",
               "n", "o", "p", "q", "r", "s", "t", "u", "v", "w", "x", "y", "z">>

\* The lower-case letter of each upper-case letter.
LowerOf == [c \in {UpperCase[j] : j \in 1..Len(UpperCase)} |->
               LowerCase[CHOOSE j \in 1..Len(UpperCase) : UpperCase[j] = c]]

\* str.lower()
lower(s) == [i \in 1..Len(s) |-> IF s[i] \in DOMAIN LowerOf THEN LowerOf[s[i]] ELSE s[i]]

\* sub in s
Contains(sub, s) ==
    \E i \in 0..(Len(s) - Len(sub)) : SubSeq(s, i + 1, i + Len(sub)) = sub

\* str(v) inside an f-string
Str(v) == IF v = None THEN <<"N", "o", "n", "e">> ELSE v

-----------------------------------------------------------------------------
(* TaskType *)

TaskType == {"VISION_ANALYSIS", "ARCHITECTURAL_CONSULTATION", "PROMPT_ENGINEERING",
             "QUALITY_ASSURANCE", "STYLE_ANALYSIS", "TECHNICAL_REVIEW"}

ValVision == <<"v", "i", "s", "i", "o", "n", "_", "a", "n", "a", "l", "y", "s", "i", "s">>
ValConsultation == <<"a", "r", "c", "h", "i", "t", "e", "c", "t", "u", "r", "a", "l", "_", "c", "o", "n", "s", "u", "l", "t", "a", "t", "i", "o", "n">>
ValPrompt == <<"p", "r", "o", "m", "p", "t", "_", "e", "n", "g", "i", "n", "e", "e", "r", "i", "n", "g">>
ValQuality == <<"q", "u", "a", "l", "i", "t", "y", "_", "a", "s", "s", "u", "r", "a", "n", "c", "e">>
ValStyle == <<"s", "t", "y", "l", "e", "_", "a", "n", "a", "l", "y", "s", "i", "s">>
ValTechnical == <<"t", "e", "c", "h", "n", "i", "c", "a", "l", "_", "r", "e", "v", "i", "e", "w">>

\* TaskType.<member>.value
TaskTypeValue(t) ==
    CASE t = "VISION_ANALYSIS" -> ValVision
      [] t = "ARCHITECTURAL_CONSULTATION" -> ValConsultation
      [] t = "PROMPT_ENGINEERING" -> ValPrompt
      [] t = "QUALITY_ASSURANCE" -> ValQuality
      [] t = "STYLE_ANALYSIS" -> ValStyle
      [] t = "TECHNICAL_REVIEW" -> ValTechnical

\* AgentTask(...): completed and result take their defaults.
AgentTask(task_type, input_data, context, dependencies, priority) ==
    [task_type |-> task_type, input_data |-> input_data, context |-> context,
     dependencies |-> dependencies, priority |-> priority,
     completed |-> FALSE, result |-> None]

-----------------------------------------------------------------------------
(* SimpleAzureAgent *)

NameVision == <<"V", "i", "s", "i", "o", "n", " ", "A", "n", "a", "l", "y", "s", "t">>
NameConsultation == <<"A", "r", "c", "h", "i", "t", "e", "c", "t", "u", "r", "a", "l", " ", "E", "x", "p", "e", "r", "t">>
NamePrompt == <<"F", "L", "U", "X", " ", "P", "r", "o", "m", "p", "t", " ", "E", "n", "g", "i", "n", "e", "e", "r">>
NameQuality == <<"Q", "u", "a", "l", "i", "t", "y", " ", "A", "s", "s", "u", "r", "a", "n", "c", "e">>
NameStyle == <<"S", "t", "y", "l", "e", " ", "S", "p", "e", "c", "i", "a", "l", "i", "s", "t">>
NameTechnical == <<"T", "e", "c", "h", "n", "i", "c", "a", "l", " ", "R", "e", "v", "i", "e", "w", "e", "r">>

\* self.agents[t].name
AgentName(t) ==
    CASE t = "VISION_ANALYSIS" -> NameVision
      [] t = "ARCHITECTURAL_CONSULTATION" -> NameConsultation
      [] t = "PROMPT_ENGINEERING" -> NamePrompt
      [] t = "QUALITY_ASSURANCE" -> NameQuality
      [] t = "STYLE_ANALYSIS" -> NameStyle
      [] t = "TECHNICAL_REVIEW" -> NameTechnical

\* The text before the agent's name in the string returned for an exception
\* (the first character is U+274C).
AgentErrorPrefix == <<"U+274C", " ", "E", "r", "r", "o", "r", " ", "i", "n", " ">>

\* images[:3]: how many images of the list are put into the request.
ImageLimit == 3

\* An item of an image list that is a str, not bytes.
NotBytes == "text"

\* str(e) of the TypeError base64.b64encode raises for such an item.
ExcNotBytes == <<"a", " ", "b", "y", "t", "e", "s", "-", "l", "i", "k", "e", " ",
                 "o", "b", "j", "e", "c", "t", " ", "i", "s", " ",
                 "r", "e", "q", "u", "i", "r", "e", "d", ",", " ", "n", "o", "t", " ",
                 "'", "s", "t", "r", "'">>

\* The images the request carries: none for None or an empty list, the first
\* three of the list otherwise.
ImagesSent(images) ==
    IF Truthy(images) THEN SubSeq(images, 1, Min(Len(images), ImageLimit)) ELSE <<>>

\* Building the messages raises: one of the images to encode is not bytes.
BuildRaises(images) ==
    \E i \in 1..Len(ImagesSent(images)) : ImagesSent(images)[i] = NotBytes

\* What happens inside the try block of process_request: building the messages
\* raises, or the chat-completion call is made and does what remote says.
Attempt(images, remote) ==
    IF BuildRaises(images)
    THEN [raises |-> TRUE, content |-> None, message |-> ExcNotBytes]
    ELSE remote

\* process_request that lets the exception leave the method.
process_request_reraising(name, remote) ==
    IF remote.raises
    THEN [raised |-> TRUE, value |-> remote.message]
    ELSE [raised |-> FALSE, value |-> remote.content]

\* process_request that returns an empty string for an exception.
process_request_empty_on_error(name, remote) ==
    IF remote.raises
    THEN [raised |-> FALSE, value |-> <<>>]
    ELSE [raised |-> FALSE, value |-> remote.content]

\* SimpleAzureAgent.process_request of the agent called name, given what happens
\* inside its try block: remote.raises says whether an exception is raised there
\* (remote.message is then str(e)), and remote.content is the content of the
\* response otherwise (a text or None).  The outcome is [raised, value]: value is what is returned, or
\* str(e) of the exception that leaves the method.  Every exception is caught and
\* returned as a string, so none leaves it.
process_request(name, remote) ==
    IF remote.raises
    THEN [raised |-> FALSE,
          value |-> AgentErrorPrefix \o name \o <<":", " ">> \o remote.message]
    ELSE [raised |-> FALSE, value |-> remote.content]

-----------------------------------------------------------------------------
(* IntelligentOrchestrator._plan_workflow *)

KwStyle == <<"s", "t", "y", "l", "e">>
KwHistorical == <<"h", "i", "s", "t", "o", "r", "i", "c", "a", "l">>
KwPeriod == <<"p", "e", "r", "i", "o", "d">>
KwClassical == <<"c", "l", "a", "s", "s", "i", "c", "a", "l">>
KwModern == <<"m", "o", "d", "e", "r", "n">>
KwStructural == <<"s", "t", "r", "u", "c", "t", "u", "r", "a", "l">>
KwEngineering == <<"e", "n", "g", "i", "n", "e", "e", "r", "i", "n", "g">>
KwTechnical == <<"t", "e", "c", "h", "n", "i", "c", "a", "l">>
KwCode == <<"c", "o", "d", "e">>
KwRegulation == <<"r", "e", "g", "u", "l", "a", "t", "i", "o", "n">>

StyleKeywords == <<KwStyle, KwHistorical, KwPeriod, KwClassical, KwModern>>

TechnicalKeywords == <<KwStructural, KwEngineering, KwTechnical, KwCode, KwRegulation>>

\* AnyKeyword without .lower(): the message is searched as written.
AnyKeyword_case_sensitive(keywords, message) ==
    \E i \in 1..Len(keywords) : Contains(keywords[i], message)

\* any(keyword in user_message.lower() for keyword in keywords)
AnyKeyword(keywords, message) ==
    \E i \in 1..Len(keywords) : Contains(keywords[i], lower(message))

\* _plan_workflow whose consultation task never depends on vision analysis.
_plan_workflow_consultation_independent(message, images) ==
    LET vision ==
            IF Truthy(images)
            THEN <<AgentTask("VISION_ANALYSIS", message, {<<"has_images", TRUE>>}, {}, 1)>>
            ELSE <<>>
        core ==
            <<AgentTask("ARCHITECTURAL_CONSULTATION", message, {}, {}, 2),
              AgentTask("PROMPT_ENGINEERING", message, {},
                        {"ARCHITECTURAL_CONSULTATION"}, 3),
              AgentTask("QUALITY_ASSURANCE", message, {},
                        {"PROMPT_ENGINEERING"}, 4)>>
        style ==
            IF AnyKeyword(StyleKeywords, message)
            THEN <<AgentTask("STYLE_ANALYSIS", message, {},
                             IF Truthy(images) THEN {"VISION_ANALYSIS"} ELSE {}, 2)>>
            ELSE <<>>
        technical ==
            IF AnyKeyword(TechnicalKeywords, message)
            THEN <<AgentTask("TECHNICAL_REVIEW", message, {},
                             {"ARCHITECTURAL_CONSULTATION"}, 3)>>
            ELSE <<>>
    IN  vision \o core \o style \o technical

\* The list _plan_workflow returns, as AgentTask values in list order.
_plan_workflow(message, images) ==
    LET vision ==
            IF Truthy(images)
            THEN <<AgentTask("VISION_ANALYSIS", message, {<<"has_images", TRUE>>}, {}, 1)>>
            ELSE <<>>
        core ==
            <<AgentTask("ARCHITECTURAL_CONSULTATION", message, {},
                        IF Truthy(images) THEN {"VISION_ANALYSIS"} ELSE {}, 2),
              AgentTask("PROMPT_ENGINEERING", message, {},
                        {"ARCHITECTURAL_CONSULTATION"}, 3),
              AgentTask("QUALITY_ASSURANCE", message, {},
                        {"PROMPT_ENGINEERING"}, 4)>>
        style ==
            IF AnyKeyword(StyleKeywords, message)
            THEN <<AgentTask("STYLE_ANALYSIS", message, {},
                             IF Truthy(images) THEN {"VISION_ANALYSIS"} ELSE {}, 2)>>
            ELSE <<>>
        technical ==
            IF AnyKeyword(TechnicalKeywords, message)
            THEN <<AgentTask("TECHNICAL_REVIEW", message, {},
                             {"ARCHITECTURAL_CONSULTATION"}, 3)>>
            ELSE <<>>
    IN  vision \o core \o style \o technical

-----------------------------------------------------------------------------
(* Requests and agent behaviours explored *)

MsgPlain == <<"B", "u", "i", "l", "d", " ", "a", " ", "h", "o", "u", "s", "e">>
MsgModern == <<"D", "e", "s", "i", "g", "n", " ", "a", " ", "m", "o", "d", "e", "r", "n", " ", "h", "o", "u", "s", "e">>
MsgStructural == <<"A", "n", "a", "l", "y", "z", "e", " ", "t", "h", "i", "s", " ", "s", "t", "r", "u", "c", "t", "u", "r", "a", "l", " ", "i", "s", "s", "u", "e">>
MsgBoth == <<"D", "E", "C", "O", "D", "E", " ", "C", "l", "a", "s", "s", "i", "c", "a", "l">>
TextOk == <<"o", "k">>
TextStyle == <<"S", "t", "y", "l", "e", " ", "A", "n", "a", "l", "y", "s", "i", "s">>
TextTech == <<"T", "e", "c", "h", "n", "i", "c", "a", "l", " ", "R", "e", "v", "i", "e", "w", " ", "n", "e", "e", "d", "e", "d">>
ExcTimeout == <<"t", "i", "m", "e", "o", "u", "t">>

\* The messages of the requests that are planned and executed.
Messages == {MsgPlain, MsgModern, MsgStructural, MsgBoth}

\* The image lists of the requests that are planned and executed.
ImageLists == {None, <<"png1">>}

WordHouse == <<"h", "o", "u", "s", "e">>
WordModern == <<"M", "o", "d", "e", "r", "n">>
WordStyle == <<"S", "T", "Y", "L", "E">>
WordDecode == <<"d", "e", "c", "o", "d", "e">>
WordStructural == <<"s", "t", "r", "u", "c", "t", "u", "r", "a", "l">>
WordPeriodic == <<"P", "e", "r", "i", "o", "d", "i", "c">>
WordEngineer == <<"e", "n", "g", "i", "n", "e", "e", "r">>
WordHistory == <<"h", "i", "s", "t", "o", "r", "y">>

Words == {WordHouse, WordModern, WordStyle, WordDecode, WordStructural,
          WordPeriodic, WordEngineer, WordHistory}

\* The messages handed to the planner alone: the sample messages and every pair
\* of words.
PlannerMessages == Messages \cup {a \o <<" ">> \o b : a, b \in Words}

\* The image lists handed to the planner alone.
PlannerImageLists == {None, <<>>, <<"png1">>, <<"png1", "png2">>}

\* Contents of a chat-completion response.
Contents == {TextOk, TextStyle, TextTech}

-----------------------------------------------------------------------------
(* The results dict: entries in insertion order *)

Keys(d) == {d[i].key : i \in 1..Len(d)}

\* d.get(k, default)
Get(d, k, default) ==
    IF k \in Keys(d)
    THEN d[CHOOSE i \in 1..Len(d) : d[i].key = k].value
    ELSE default

\* Put that adds an entry even when the key is present.
Put_always_appends(d, k, v) == Append(d, [key |-> k, value |-> v])

\* Put that moves a key already present to the end.
Put_moves_to_end(d, k, v) ==
    SelectSeq(d, LAMBDA entry : entry.key # k) \o <<[key |-> k, value |-> v]>>

\* d[k] = v: a key already present keeps its place and takes the new value.
Put(d, k, v) ==
    IF k \in Keys(d)
    THEN [i \in 1..Len(d) |-> IF d[i].key = k THEN [key |-> k, value |-> v] ELSE d[i]]
    ELSE Append(d, [key |-> k, value |-> v])

-----------------------------------------------------------------------------
(* IntelligentOrchestrator._execute_single_task *)

\* context = self.conversation_memory[session_id]["context"]
SessionContext == conversation_memory[session_id].context

\* The orders in which a for-loop may enumerate the set S.
Orders(S) ==
    {s \in [1..Cardinality(S) -> S] :
        \A i, j \in 1..Cardinality(S) : i # j => s[i] # s[j]}

\* One line of task context: f"\n{dep.value}: {results[dep]}\n"
DependencyLine(dep, res) ==
    <<"\n">> \o TaskTypeValue(dep) \o <<":", " ">> \o Str(Get(res, dep, None)) \o <<"\n">>

\* TaskContext that appends a line for every recorded result.
TaskContext_all_results(order, res, context) ==
    LET lines[i \in 0..Len(res)] ==
            IF i = 0 THEN context ELSE lines[i - 1] \o DependencyLine(res[i].key, res)
    IN  lines[Len(res)]

\* task_context after the loop over task.dependencies, enumerated in order.
RECURSIVE TaskContext(_, _, _)
TaskContext(order, res, context) ==
    IF order = <<>>
    THEN context
    ELSE TaskContext(Tail(order), res,
                     IF Head(order) \in Keys(res)
                     THEN context \o DependencyLine(Head(order), res)
                     ELSE context)

\* No chat-completion call made yet.
NoRemote == [raises |-> FALSE, content |-> None, message |-> <<>>]

\* AgentCall that hands the request's images to every agent.
AgentCall_always_images(task, images, res, context, order) ==
    [task_type |-> task.task_type,
     user_message |-> task.input_data,
     images |-> IF Truthy(images) THEN images ELSE None,
     context |-> TaskContext(order, res, context),
     dependencies |-> task.dependencies,
     remote |-> NoRemote, sent |-> <<>>]

\* The arguments of agent.process_request: images only for a vision task of a
\* request with images, None (the default) otherwise.  The record also notes the
\* dependencies of the task executed and, once made, what happened in the
\* agent's try block and the images the request carried.
AgentCall(task, images, res, context, order) ==
    [task_type |-> task.task_type,
     user_message |-> task.input_data,
     images |-> IF task.task_type = "VISION_ANALYSIS" /\ Truthy(images)
                THEN images ELSE None,
     context |-> TaskContext(order, res, context),
     dependencies |-> task.dependencies,
     remote |-> NoRemote, sent |-> <<>>]

\* _execute_single_task: the call it makes, with what then happens inside the
\* agent, and its outcome, which is that of the agent's process_request.
_execute_single_task(task, images, res, context, order, remote) ==
    LET agent_call == AgentCall(task, images, res, context, order)
        attempt == Attempt(agent_call.images, remote)
    IN  [call |-> [agent_call EXCEPT
                      !.remote = attempt,
                      !.sent = IF BuildRaises(agent_call.images)
                               THEN <<>>
                               ELSE ImagesSent(agent_call.images)],
         outcome |-> process_request(AgentName(task.task_type), attempt)]

-----------------------------------------------------------------------------
(* IntelligentOrchestrator._parse_routing_suggestions *)

PhraseStyleAnalysis == <<"s", "t", "y", "l", "e", " ", "a", "n", "a", "l", "y", "s", "i", "s">>
PhraseTechnicalReview == <<"t", "e", "c", "h", "n", "i", "c", "a", "l", " ", "r", "e", "v", "i", "e", "w">>

\* _parse_routing_suggestions without .lower(): the phrases are matched as written.
_parse_routing_suggestions_case_sensitive(agent_result, source_task) ==
    (IF Contains(PhraseStyleAnalysis, agent_result) /\ source_task # "STYLE_ANALYSIS"
     THEN <<"STYLE_ANALYSIS">> ELSE <<>>)
    \o
    (IF Contains(PhraseTechnicalReview, agent_result) /\ source_task # "TECHNICAL_REVIEW"
     THEN <<"TECHNICAL_REVIEW">> ELSE <<>>)

\* The suggestions list, for a text agent_result (agent_result.lower() raises
\* AttributeError for None: see ExecuteTask).
_parse_routing_suggestions(agent_result, source_task) ==
    (IF Contains(PhraseStyleAnalysis, lower(agent_result)) /\ source_task # "STYLE_ANALYSIS"
     THEN <<"STYLE_ANALYSIS">> ELSE <<>>)
    \o
    (IF Contains(PhraseTechnicalReview, lower(agent_result)) /\ source_task # "TECHNICAL_REVIEW"
     THEN <<"TECHNICAL_REVIEW">> ELSE <<>>)

-----------------------------------------------------------------------------
(* IntelligentOrchestrator._execute_workflow *)

\* The text before str(e) in the executor's own error result.
ExecutorErrorPrefix == <<"E", "r", "r", "o", "r", ":", " ">>

\* [t.task_type for t in list]
TypesOf(list, h) == {h[list[i]].task_type : i \in 1..Len(list)}

\* ReadyTasks without the dependency test: every remaining task is taken.
ReadyTasks_all_remaining(remaining, h, res) == remaining

\* ReadyTasks in the order of the priority field, lowest number first.
ReadyTasks_by_priority(remaining, h, res) ==
    LET ready == SelectSeq(remaining, LAMBDA t : h[t].dependencies \subseteq Keys(res))
        of(p) == SelectSeq(ready, LAMBDA t : h[t].priority = p)
    IN  of(1) \o of(2) \o of(3) \o of(4) \o of(5)

\* The ready_tasks of a pass: the remaining tasks whose dependencies are all keys
\* of results, in list order.
ReadyTasks(remaining, h, res) ==
    SelectSeq(remaining, LAMBDA t : h[t].dependencies \subseteq Keys(res))

\* The id of a newly created object: one no live object has.
FreshId(h) == CHOOSE i \in 1..(Cardinality(DOMAIN h) + 1) :
                  i \notin DOMAIN h /\ \A j \in 1..(i - 1) : j \in DOMAIN h

\* ShouldInject without the test against remaining_tasks.
ShouldInject_always(new_task, remaining, h) == TRUE

\* ShouldInject that tests the planned tasks only: a task appended by dynamic
\* routing does not count.
ShouldInject_ignoring_injected(new_task, remaining, h) ==
    new_task \notin TypesOf(SelectSeq(remaining, LAMBDA t : h[t].priority # 5), h)

\* Whether a suggested kind gets a new task: it is not the kind of a task still
\* in remaining_tasks.
ShouldInject(new_task, remaining, h) == new_task \notin TypesOf(remaining, h)

\* The loop over additional_tasks: state is [remaining, heap, added].
RECURSIVE InjectAll(_, _, _, _)
InjectAll(additional, state, message, source_task) ==
    IF additional = <<>>
    THEN state
    ELSE LET new_task == Head(additional)
             id == FreshId(state.heap)
             obj == AgentTask(new_task, message, {<<"dynamic_routing", TRUE>>},
                              {source_task}, 5)
         IN  InjectAll(Tail(additional),
                       IF ShouldInject(new_task, state.remaining, state.heap)
                       THEN [remaining |-> Append(state.remaining, id),
                             heap |-> [i \in DOMAIN state.heap \cup {id} |->
                                          IF i = id THEN obj ELSE state.heap[i]],
                             added |-> state.added \cup {new_task}]
                       ELSE state,
                       message, source_task)

\* list.remove(task): drops the first element that is task or equals it (a
\* dataclass compares field by field).
Remove(list, h, t) ==
    LET j == CHOOSE i \in 1..Len(list) :
                 /\ list[i] = t \/ h[list[i]] = h[t]
                 /\ \A k \in 1..(i - 1) : ~(list[k] = t \/ h[list[k]] = h[t])
    IN  SubSeq(list, 1, j - 1) \o SubSeq(list, j + 1, Len(list))

\* What the remote chat-completion call of one agent invocation may do.
RemoteOutcomes ==
    {[raises |-> FALSE, content |-> c, message |-> <<>>] : c \in Contents \cup {None}}
    \cup {[raises |-> TRUE, content |-> None, message |-> ExcTimeout]}

\* No agent called yet.
NoCall == [task_type |-> "", user_message |-> <<>>, images |-> None,
           context |-> <<>>, dependencies |-> {}, remote |-> NoRemote,
           sent |-> <<>>]

\* The elements of a list.
Elems(list) == {list[i] : i \in 1..Len(list)}

\* Objects no list refers to any more are gone.
Collect(h, lists) ==
    [i \in {i \in DOMAIN h : \E l \in lists : \E k \in 1..Len(l) : l[k] = i} |-> h[i]]

-----------------------------------------------------------------------------
(* Python floats: IEEE 754 binary64, positive and normal.  A float is its
   exponent and its 53-bit significand, most significant bit first; its value
   is the significand, read as an integer, times 2^(exp - 52). *)

Nibble(h) ==
    CASE h = "0" -> <<0, 0, 0, 0>> [] h = "1" -> <<0, 0, 0, 1>>
      [] h = "2" -> <<0, 0, 1, 0>> [] h = "3" -> <<0, 0, 1, 1>>
      [] h = "4" -> <<0, 1, 0, 0>> [] h = "5" -> <<0, 1, 0, 1>>
      [] h = "6" -> <<0, 1, 1, 0>> [] h = "7" -> <<0, 1, 1, 1>>
      [] h = "8" -> <<1, 0, 0, 0>> [] h = "9" -> <<1, 0, 0, 1>>
      [] h = "a" -> <<1, 0, 1, 0>> [] h = "b" -> <<1, 0, 1, 1>>
      [] h = "c" -> <<1, 1, 0, 0>> [] h = "d" -> <<1, 1, 0, 1>>
      [] h = "e" -> <<1, 1, 1, 0>> [] h = "f" -> <<1, 1, 1, 1>>

RECURSIVE HexBits(_)
HexBits(hex) ==
    IF hex = <<>> THEN <<>> ELSE Nibble(Head(hex)) \o HexBits(Tail(hex))

\* The float written 0x1.<hex>p<e>, hex being 13 hexadecimal digits.
Float(hex, e) == [exp |-> e, mant |-> <<1>> \o HexBits(hex)]

\* The literals of _calculate_overall_confidence, as Python reads them.
Float_0_8 == Float(<<"9","9","9","9","9","9","9","9","9","9","9","9","a">>, -1)
Float_0_6 == Float(<<"3","3","3","3","3","3","3","3","3","3","3","3","3">>, -1)
Float_0_05 == Float(<<"9","9","9","9","9","9","9","9","9","9","9","9","a">>, -5)
Float_1_0 == Float(<<"0","0","0","0","0","0","0","0","0","0","0","0","0">>, 0)

Zeros(n) == [i \in 1..n |-> 0]

\* The literals of FixedAzureOrchestrator.process_request: 0.9 as Python reads
\* it, and 0.0, whose bits are all zero.
Float_0_9 == Float(<<"c","c","c","c","c","c","c","c","c","c","c","c","d">>, -1)
Float_0_0 == [exp |-> 0, mant |-> Zeros(53)]

\* x + y for bit strings of one length n; the sum has n + 1 bits.  carry[i] is
\* the carry out of the i lowest bits.
AddBits(x, y) ==
    LET n == Len(x)
        carry[i \in 0..n] ==
            IF i = 0 THEN 0 ELSE (x[n - i + 1] + y[n - i + 1] + carry[i - 1]) \div 2
    IN  [k \in 1..(n + 1) |->
            IF k = 1
            THEN carry[n]
            ELSE (x[k - 1] + y[k - 1] + carry[n - k + 1]) % 2]

\* x + y: the exact sum rounded to 53 bits, to nearest, ties to even.
FloatAdd(x, y) ==
    LET hi == IF x.exp >= y.exp THEN x ELSE y
        lo == IF x.exp >= y.exp THEN y ELSE x
        d == hi.exp - lo.exp
        sum == AddBits(hi.mant \o Zeros(d), Zeros(d) \o lo.mant)
        exact == IF sum[1] = 0 THEN Tail(sum) ELSE sum
        n == Len(exact)
        kept == SubSeq(exact, 1, 53)
        rest == SubSeq(exact, 54, n)
        up == /\ rest # <<>>
              /\ rest[1] = 1
              /\ \/ kept[53] = 1
                 \/ \E i \in 2..Len(rest) : rest[i] = 1
        rounded == IF up THEN AddBits(kept, Zeros(52) \o <<1>>) ELSE <<0>> \o kept
    IN  IF rounded[1] = 1
        THEN [exp |-> lo.exp + (n - 53) + 1, mant |-> SubSeq(rounded, 1, 53)]
        ELSE [exp |-> lo.exp + (n - 53), mant |-> Tail(rounded)]

\* x < y
FloatLess(x, y) ==
    \/ x.exp < y.exp
    \/ /\ x.exp = y.exp
       /\ \E i \in 1..53 : /\ x.mant[i] < y.mant[i]
                           /\ \A j \in 1..(i - 1) : x.mant[j] = y.mant[j]

\* min(x, y)
FloatMin(x, y) == IF FloatLess(y, x) THEN y ELSE x

-----------------------------------------------------------------------------
(* IntelligentOrchestrator._calculate_overall_confidence and
   _compile_final_output *)

\* The arithmetic of _calculate_overall_confidence: at_least_3 is
\* len(results) >= 3, style and technical are the two membership tests.
Confidence(at_least_3, style, technical) ==
    LET base_confidence == IF at_least_3 THEN Float_0_8 ELSE Float_0_6
        with_style == IF style
                      THEN FloatAdd(base_confidence, Float_0_05)
                      ELSE base_confidence
        with_technical == IF technical
                          THEN FloatAdd(with_style, Float_0_05)
                          ELSE with_style
    IN  FloatMin(with_technical, Float_1_0)

\* Confidence, computed once for each outcome of the three tests.
ConfidenceOf ==
    [at_least_3 \in BOOLEAN, style \in BOOLEAN, technical \in BOOLEAN |->
        Confidence(at_least_3, style, technical)]

\* The error strings an agent or the executor records begin with these.
IsErrorText(text) ==
    \E prefix \in {AgentErrorPrefix, ExecutorErrorPrefix} :
        /\ Len(text) >= Len(prefix)
        /\ SubSeq(text, 1, Len(prefix)) = prefix

\* Confidence that counts only the results that are not error strings.
_calculate_overall_confidence_skipping_errors(res) ==
    LET ok == SelectSeq(res, LAMBDA e : ~IsErrorText(e.value))
    IN  ConfidenceOf[Len(ok) >= 3, "STYLE_ANALYSIS" \in Keys(ok),
                     "TECHNICAL_REVIEW" \in Keys(ok)]

\* Confidence with the two bases exchanged.
_calculate_overall_confidence_bases_swapped(res) ==
    ConfidenceOf[Len(res) < 3, "STYLE_ANALYSIS" \in Keys(res),
                 "TECHNICAL_REVIEW" \in Keys(res)]

_calculate_overall_confidence(res) ==
    ConfidenceOf[Len(res) >= 3, "STYLE_ANALYSIS" \in Keys(res),
                 "TECHNICAL_REVIEW" \in Keys(res)]

\* _compile_final_output has not returned.
NotReturned == [final_output |-> None]

\* _compile_final_output whose lookups have no default: results.get(kind).
_compile_final_output_no_default(res) ==
    [final_output |->
        [workflow_executed |-> [i \in 1..Len(res) |-> res[i].key],
         architectural_analysis |-> Get(res, "VISION_ANALYSIS", None),
         expert_consultation |-> Get(res, "ARCHITECTURAL_CONSULTATION", None),
         style_analysis |-> Get(res, "STYLE_ANALYSIS", None),
         technical_review |-> Get(res, "TECHNICAL_REVIEW", None),
         optimized_prompt |-> Get(res, "PROMPT_ENGINEERING", None),
         quality_review |-> Get(res, "QUALITY_ASSURANCE", None),
         confidence_score |-> _calculate_overall_confidence(res),
         agent_collaboration |-> TRUE,
         intelligent_routing |-> TRUE],
     all_results |-> res]

\* _compile_final_output with the two specialist lookups exchanged.
_compile_final_output_specialists_exchanged(res) ==
    [final_output |->
        [workflow_executed |-> [i \in 1..Len(res) |-> res[i].key],
         architectural_analysis |-> Get(res, "VISION_ANALYSIS", <<>>),
         expert_consultation |-> Get(res, "ARCHITECTURAL_CONSULTATION", <<>>),
         style_analysis |-> Get(res, "TECHNICAL_REVIEW", <<>>),
         technical_review |-> Get(res, "STYLE_ANALYSIS", <<>>),
         optimized_prompt |-> Get(res, "PROMPT_ENGINEERING", <<>>),
         quality_review |-> Get(res, "QUALITY_ASSURANCE", <<>>),
         confidence_score |-> _calculate_overall_confidence(res),
         agent_collaboration |-> TRUE,
         intelligent_routing |-> TRUE],
     all_results |-> res]

\* The value _compile_final_output returns for the results map res.
_compile_final_output(res) ==
    [final_output |->
        [workflow_executed |-> [i \in 1..Len(res) |-> res[i].key],
         architectural_analysis |-> Get(res, "VISION_ANALYSIS", <<>>),
         expert_consultation |-> Get(res, "ARCHITECTURAL_CONSULTATION", <<>>),
         style_analysis |-> Get(res, "STYLE_ANALYSIS", <<>>),
         technical_review |-> Get(res, "TECHNICAL_REVIEW", <<>>),
         optimized_prompt |-> Get(res, "PROMPT_ENGINEERING", <<>>),
         quality_review |-> Get(res, "QUALITY_ASSURANCE", <<>>),
         confidence_score |-> _calculate_overall_confidence(res),
         agent_collaboration |-> TRUE,
         intelligent_routing |-> TRUE],
     all_results |-> res]

\* The entry of a session id first seen (line 169).
NewSession == [context |-> <<>>, agent_outputs |-> <<>>]

\* conversation_memory of an orchestrator that has served no request.
NoSessions == [s \in {} |-> NewSession]

\* PlanWorkflow whose planner consults the session: a task whose kind the
\* session already holds an output for is planned as completed, with that
\* output as its result.
PlanWorkflow_reading_session ==
    /\ pc = "plan"
    /\ LET outputs == IF session_id \in DOMAIN conversation_memory
                      THEN conversation_memory[session_id].agent_outputs
                      ELSE <<>>
           fresh == _plan_workflow(user_message, user_images)
           initial_tasks ==
               [i \in 1..Len(fresh) |->
                   IF fresh[i].task_type \in Keys(outputs)
                   THEN [fresh[i] EXCEPT !.completed = TRUE,
                                         !.result = Get(outputs, fresh[i].task_type, None)]
                   ELSE fresh[i]]
       IN  /\ heap' = [i \in 1..Len(initial_tasks) |-> initial_tasks[i]]
           /\ tasks' = [i \in 1..Len(initial_tasks) |-> i]
           /\ remaining_tasks' = [i \in 1..Len(initial_tasks) |-> i]
           /\ planned' = IF <<user_message, user_images>> \in DOMAIN planned
                         THEN planned
                         ELSE planned @@ (<<user_message, user_images>> :> initial_tasks)
    /\ conversation_memory' =
          IF session_id \notin DOMAIN conversation_memory
          THEN conversation_memory @@ (session_id :> NewSession)
          ELSE conversation_memory
    /\ results' = <<>>
    /\ pc' = "loop"
    /\ UNCHANGED <<user_message, user_images, ready_tasks, idx, call, calls, injected,
                   session_id, returned, previous,
                   executed, other, ctx>>

\* _process_request_internal up to the first test of the while-loop: create the
\* session entry if the id is new, plan the
\* workflow, then enter _execute_workflow (results = {}, remaining_tasks =
\* tasks.copy()).
PlanWorkflow ==
    /\ pc = "plan"
    /\ LET initial_tasks == _plan_workflow(user_message, user_images)
       IN  /\ heap' = [i \in 1..Len(initial_tasks) |-> initial_tasks[i]]
           /\ tasks' = [i \in 1..Len(initial_tasks) |-> i]
           /\ remaining_tasks' = [i \in 1..Len(initial_tasks) |-> i]
           /\ planned' = IF <<user_message, user_images>> \in DOMAIN planned
                         THEN planned
                         ELSE planned @@ (<<user_message, user_images>> :> initial_tasks)
    /\ conversation_memory' =
          IF session_id \notin DOMAIN conversation_memory
          THEN conversation_memory @@ (session_id :> NewSession)
          ELSE conversation_memory
    /\ results' = <<>>
    /\ pc' = "loop"
    /\ UNCHANGED <<user_message, user_images, ready_tasks, idx, call, calls, injected,
                   session_id, returned, previous,
                   executed, other, ctx>>

\* WhileTest that runs the remaining tasks anyway when none of them is ready.
WhileTest_runs_unready ==
    /\ pc = "loop"
    /\ IF remaining_tasks = <<>>
       THEN /\ pc' = "done"
            /\ ready_tasks' = <<>>
            /\ idx' = 1
       ELSE /\ pc' = "run"
            /\ ready_tasks' = IF ReadyTasks(remaining_tasks, heap, results) = <<>>
                              THEN remaining_tasks
                              ELSE ReadyTasks(remaining_tasks, heap, results)
            /\ idx' = 1
    /\ heap' = Collect(heap, {tasks, remaining_tasks})
    /\ UNCHANGED <<user_message, user_images, tasks, remaining_tasks, results,
                   call, calls, injected, session_id, conversation_memory, returned,
                   previous, planned,
                   executed, other, ctx>>

\* The test of the while-loop and the choice of ready_tasks: return when nothing
\* remains, break when nothing is ready, start a pass otherwise.
WhileTest ==
    /\ pc = "loop"
    /\ LET ready == ReadyTasks(remaining_tasks, heap, results)
       IN  IF remaining_tasks = <<>> \/ ready = <<>>
           THEN /\ pc' = "done"
                /\ ready_tasks' = <<>>
                /\ idx' = 1
           ELSE /\ pc' = "run"
                /\ ready_tasks' = ready
                /\ idx' = 1
    /\ heap' = Collect(heap, {tasks, remaining_tasks})
    /\ UNCHANGED <<user_message, user_images, tasks, remaining_tasks, results,
                   call, calls, injected, session_id, conversation_memory, returned,
                   previous, planned,
                   executed, other, ctx>>

\* ExecuteTask whose for-loop iterates a list that grows with the tasks appended
\* during the pass.
ExecuteTask_iterating_live_list ==
    /\ pc = "run"
    /\ \E remote \in RemoteOutcomes :
       \E order \in Orders(heap[ready_tasks[idx]].dependencies) :
         LET t == ready_tasks[idx]
             task == heap[t]
             single == _execute_single_task(task, user_images, results,
                                            SessionContext, order, remote)
             results1 == Put(results, task.task_type,
                             IF single.outcome.raised
                             THEN ExecutorErrorPrefix \o single.outcome.value
                             ELSE single.outcome.value)
             agent_result == Get(results1, task.task_type, <<>>)
             heap1 == [heap EXCEPT ![t] = [@ EXCEPT !.completed = TRUE,
                                                    !.result = agent_result]]
         IN  /\ results' = results1
             /\ call' = single.call
             /\ calls' = [calls EXCEPT ![task.task_type] = Min(@ + 1, MaxCalls)]
             /\ executed' = IF task.task_type \in Elems(executed)
                            THEN executed
                            ELSE Append(executed, task.task_type)
             /\ IF agent_result = None
                THEN \* agent_result.lower() raises AttributeError outside the try
                     /\ pc' = "raised"
                     /\ heap' = heap1
                     /\ UNCHANGED <<remaining_tasks, ready_tasks, idx, injected>>
                ELSE LET additional == _parse_routing_suggestions(agent_result,
                                                                  task.task_type)
                         after == InjectAll(additional,
                                            [remaining |-> remaining_tasks,
                                             heap |-> heap1, added |-> {}],
                                            user_message, task.task_type)
                     IN  /\ remaining_tasks' = Remove(after.remaining, after.heap, t)
                         /\ heap' = after.heap
                         /\ injected' = injected \cup after.added
                         /\ ready_tasks' =
                               ready_tasks \o SubSeq(after.remaining,
                                                     Len(remaining_tasks) + 1,
                                                     Len(after.remaining))
                         /\ IF idx < Len(ready_tasks')
                            THEN pc' = "run" /\ idx' = idx + 1
                            ELSE pc' = "loop" /\ idx' = idx
    /\ UNCHANGED <<user_message, user_images, tasks, session_id, conversation_memory,
                   returned, previous, planned, other, ctx>>

\* One iteration of the for-loop over ready_tasks: execute the task, record the
\* result, mark the task, scan the result for routing suggestions, append the
\* suggested tasks and remove the task.
ExecuteTask ==
    /\ pc = "run"
    /\ \E remote \in RemoteOutcomes :
       \E order \in Orders(heap[ready_tasks[idx]].dependencies) :
         LET t == ready_tasks[idx]
             task == heap[t]
             single == _execute_single_task(task, user_images, results,
                                            SessionContext, order, remote)
             results1 == Put(results, task.task_type,
                             IF single.outcome.raised
                             THEN ExecutorErrorPrefix \o single.outcome.value
                             ELSE single.outcome.value)
             agent_result == Get(results1, task.task_type, <<>>)
             heap1 == [heap EXCEPT ![t] = [@ EXCEPT !.completed = TRUE,
                                                    !.result = agent_result]]
         IN  /\ results' = results1
             /\ call' = single.call
             /\ calls' = [calls EXCEPT ![task.task_type] = Min(@ + 1, MaxCalls)]
             /\ executed' = IF task.task_type \in Elems(executed)
                            THEN executed
                            ELSE Append(executed, task.task_type)
             /\ IF agent_result = None
                THEN \* agent_result.lower() raises AttributeError outside the try
                     /\ pc' = "raised"
                     /\ heap' = heap1
                     /\ UNCHANGED <<remaining_tasks, ready_tasks, idx, injected>>
                ELSE LET additional == _parse_routing_suggestions(agent_result,
                                                                  task.task_type)
                         after == InjectAll(additional,
                                            [remaining |-> remaining_tasks,
                                             heap |-> heap1, added |-> {}],
                                            user_message, task.task_type)
                     IN  /\ remaining_tasks' = Remove(after.remaining, after.heap, t)
                         /\ heap' = after.heap
                         /\ injected' = injected \cup after.added
                         /\ IF idx < Len(ready_tasks)
                            THEN pc' = "run" /\ idx' = idx + 1
                            ELSE pc' = "loop" /\ idx' = idx
                         /\ UNCHANGED ready_tasks
    /\ UNCHANGED <<user_message, user_images, tasks, session_id, conversation_memory,
                   returned, previous, planned, other, ctx>>

\* CompileFinalOutput that leaves the session entry as it is.
CompileFinalOutput_without_store ==
    /\ pc = "done"
    /\ returned' = _compile_final_output(results)
    /\ previous' = returned
    /\ pc' = "returned"
    /\ UNCHANGED <<user_message, user_images, heap, tasks, remaining_tasks,
                   ready_tasks, idx, results, call, calls, injected, session_id,
                   planned, conversation_memory,
                   executed, other, ctx>>

\* CompileFinalOutput that adds the results to the outputs the session holds:
\* an output of a kind the workflow did not run is kept.
CompileFinalOutput_merging ==
    /\ pc = "done"
    /\ conversation_memory' =
          [conversation_memory EXCEPT ![session_id].agent_outputs =
              results \o SelectSeq(@, LAMBDA entry : entry.key \notin Keys(results))]
    /\ returned' = _compile_final_output(results)
    /\ previous' = returned
    /\ pc' = "returned"
    /\ UNCHANGED <<user_message, user_images, heap, tasks, remaining_tasks,
                   ready_tasks, idx, results, call, calls, injected, session_id,
                   planned, executed, other, ctx>>

\* Step 3 of _process_request_internal: store the results map in the session
\* entry, build final_output and return.
CompileFinalOutput ==
    /\ pc = "done"
    /\ conversation_memory' =
          [conversation_memory EXCEPT ![session_id].agent_outputs = results]
    /\ returned' = _compile_final_output(results)
    /\ previous' = returned
    /\ pc' = "returned"
    /\ UNCHANGED <<user_message, user_images, heap, tasks, remaining_tasks,
                   ready_tasks, idx, results, call, calls, injected, session_id,
                   planned,
                   executed, other, ctx>>

-----------------------------------------------------------------------------
(* FixedAzureOrchestrator.process_request *)

NameVisionAnalyst ==
    <<"V", "i", "s", "i", "o", "n", " ", "A", "n", "a", "l", "y", "s", "t">>
NameArchitecturalExpert ==
    <<"A", "r", "c", "h", "i", "t", "e", "c", "t", "u", "r", "a", "l", " ", "E", "x",
      "p", "e", "r", "t">>
NamePromptEngineer ==
    <<"P", "r", "o", "m", "p", "t", " ", "E", "n", "g", "i", "n", "e", "e", "r">>
NameQualityAssurance ==
    <<"Q", "u", "a", "l", "i", "t", "y", " ", "A", "s", "s", "u", "r", "a", "n", "c",
      "e">>

\* The texts put before the user message in the prompts of steps 1, 3 and 4.
PromptVision ==
    <<"A", "n", "a", "l", "y", "z", "e", " ", "t", "h", "e", "s", "e", " ", "a", "r",
      "c", "h", "i", "t", "e", "c", "t", "u", "r", "a", "l", " ", "i", "m", "a", "g",
      "e", "s", " ", "a", "n", "d", " ", "p", "r", "o", "v", "i", "d", "e", " ", "d",
      "e", "t", "a", "i", "l", "e", "d", " ", "i", "n", "s", "i", "g", "h", "t", "s",
      ":", " ">>
PromptFlux ==
    <<"C", "r", "e", "a", "t", "e", " ", "a", "n", " ", "o", "p", "t", "i", "m", "i",
      "z", "e", "d", " ", "F", "L", "U", "X", " ", "p", "r", "o", "m", "p", "t", " ",
      "f", "o", "r", ":", " ">>
PromptReview ==
    <<"R", "e", "v", "i", "e", "w", " ", "a", "n", "d", " ", "e", "n", "h", "a", "n",
      "c", "e", " ", "t", "h", "i", "s", " ", "a", "r", "c", "h", "i", "t", "e", "c",
      "t", "u", "r", "a", "l", " ", "c", "o", "n", "s", "u", "l", "t", "a", "t", "i",
      "o", "n", ":", " ">>

\* The labels of the results in the accumulated context.
LabelVision ==
    <<"V", "i", "s", "i", "o", "n", " ", "A", "n", "a", "l", "y", "s", "i", "s", ":",
      " ">>
LabelExpert ==
    <<"A", "r", "c", "h", "i", "t", "e", "c", "t", "u", "r", "a", "l", " ", "E", "x",
      "p", "e", "r", "t", ":", " ">>
LabelFlux ==
    <<"F", "L", "U", "X", " ", "P", "r", "o", "m", "p", "t", ":", " ">>

ErrorOccurred ==
    <<"E", "r", "r", "o", "r", " ", "o", "c", "c", "u", "r", "r", "e", "d", " ", "d",
      "u", "r", "i", "n", "g", " ", "p", "r", "o", "c", "e", "s", "s", "i", "n", "g">>

\* The steps, by the key or field their result goes to.
FixedSteps ==
    <<"vision_analysis", "architectural_consultation", "flux_prompt", "quality_review">>

\* The steps run for a request with these images: no vision analysis without.
StepsFor(images) == IF Truthy(images) THEN FixedSteps ELSE Tail(FixedSteps)

\* Accumulate that keeps the latest result only.
Accumulate_replacing(context, label, result) ==
    label \o Str(result) \o <<"\n", "\n">>

\* context += f"{label}{result}\n\n"
Accumulate(context, label, result) ==
    context \o label \o Str(result) \o <<"\n", "\n">>

\* An exception raised by a statement of the try block outside the agents' own
\* try blocks; str(e) is its message.
StepExceptions == {<<>>, ExcTimeout}

\* The call a step makes to its agent and what happens inside the agent.
FixedCall(step, message, images, context, remote) ==
    [task_type |-> step, user_message |-> message, images |-> images,
     context |-> context, dependencies |-> {},
     remote |-> Attempt(images, remote),
     sent |-> IF BuildRaises(images) THEN <<>> ELSE ImagesSent(images)]

\* The dict returned by the except branch.
FixedError(message, user_text) ==
    [error |-> message,
     final_output |->
        [architectural_analysis |-> ErrorOccurred,
         expert_consultation |-> ErrorOccurred,
         optimized_prompt |-> user_text,
         quality_review |-> ErrorOccurred,
         confidence_score |-> Float_0_0]]

\* The results dict returned on success, with its final_output entry.
FixedSuccess(res, arch_result, prompt_result, qa_result) ==
    [k \in Keys(res) \cup {"final_output"} |->
        IF k = "final_output"
        THEN [architectural_analysis |-> Get(res, "vision_analysis", <<>>),
              expert_consultation |-> arch_result,
              optimized_prompt |-> prompt_result,
              quality_review |-> qa_result,
              confidence_score |-> Float_0_9]
        ELSE Get(res, k, None)]

\* The except branch: an exception e reached it.
FixedExcept(message) ==
    /\ returned' = FixedError(message, user_message)
    /\ previous' = returned
    /\ pc' = "returned"
    /\ UNCHANGED <<results, ctx, call, executed>>

\* One of steps 1 to 3: call the agent with the prompt, store its result under
\* key and add it to the context; an exception goes to the except branch.
FixedStep(step, name, prompt, images, context, label, next) ==
    \/ \E remote \in RemoteOutcomes :
         LET outcome == process_request(name, Attempt(images, remote))
         IN  /\ call' = FixedCall(step, prompt, images, context, remote)
             /\ executed' = Append(executed, step)
             /\ IF outcome.raised
                THEN /\ returned' = FixedError(outcome.value, user_message)
                     /\ previous' = returned
                     /\ pc' = "returned"
                     /\ UNCHANGED <<results, ctx>>
                ELSE /\ results' = Put(results, step, outcome.value)
                     /\ ctx' = Accumulate(ctx, label, outcome.value)
                     /\ pc' = next
                     /\ UNCHANGED <<returned, previous>>
    \/ \E message \in StepExceptions : FixedExcept(message)

\* Step 1: vision analysis, if images are provided.  The agent gets no context.
FixedVisionAnalysis ==
    /\ pc = "vision"
    /\ IF Truthy(user_images)
       THEN FixedStep("vision_analysis", NameVisionAnalyst,
                      PromptVision \o user_message, user_images, None,
                      LabelVision, "consultation")
       ELSE /\ pc' = "consultation"
            /\ UNCHANGED <<results, ctx, call, executed, returned, previous>>
    /\ UNCHANGED <<user_message, user_images, heap, tasks, remaining_tasks,
                   ready_tasks, idx, calls, injected, session_id,
                   conversation_memory, planned, other>>

\* Step 2: architectural consultation.
FixedConsultation ==
    /\ pc = "consultation"
    /\ FixedStep("architectural_consultation", NameArchitecturalExpert,
                 user_message, None, ctx, LabelExpert, "prompt")
    /\ UNCHANGED <<user_message, user_images, heap, tasks, remaining_tasks,
                   ready_tasks, idx, calls, injected, session_id,
                   conversation_memory, planned, other>>

\* Step 3: prompt engineering.
FixedPromptEngineering ==
    /\ pc = "prompt"
    /\ FixedStep("flux_prompt", NamePromptEngineer, PromptFlux \o user_message,
                 None, ctx, LabelFlux, "quality")
    /\ UNCHANGED <<user_message, user_images, heap, tasks, remaining_tasks,
                   ready_tasks, idx, calls, injected, session_id,
                   conversation_memory, planned, other>>

\* Step 4: quality assurance, then the final output is put together and the
\* results are returned.
FixedQualityAssurance ==
    /\ pc = "quality"
    /\ \/ \E remote \in RemoteOutcomes :
            LET outcome == process_request(NameQualityAssurance, Attempt(None, remote))
            IN  /\ call' = FixedCall("quality_review", PromptReview \o user_message,
                                     None, ctx, remote)
                /\ executed' = Append(executed, "quality_review")
                /\ returned' =
                      IF outcome.raised
                      THEN FixedError(outcome.value, user_message)
                      ELSE FixedSuccess(results,
                                        Get(results, "architectural_consultation", None),
                                        Get(results, "flux_prompt", None),
                                        outcome.value)
                /\ previous' = returned
                /\ pc' = "returned"
                /\ UNCHANGED <<results, ctx>>
       \/ \E message \in StepExceptions : FixedExcept(message)
    /\ UNCHANGED <<user_message, user_images, heap, tasks, remaining_tasks,
                   ready_tasks, idx, calls, injected, session_id,
                   conversation_memory, planned, other>>

-----------------------------------------------------------------------------
(* Specifications *)

NoCalls == [t \in TaskType |-> 0]

\* No second request or run.
NoOther == [pc |-> "none", interleaved |-> FALSE]

\* No request planned yet.
NoPlans == [input \in {} |-> <<>>]

\* session_id: str = "default"
DefaultSession == "default"

\* A request handed to process_request.
Init ==
    /\ pc = "plan"
    /\ user_message \in Messages
    /\ user_images \in ImageLists
    /\ heap = [i \in {} |-> None]
    /\ tasks = <<>>
    /\ remaining_tasks = <<>>
    /\ ready_tasks = <<>>
    /\ idx = 1
    /\ results = <<>>
    /\ call = NoCall
    /\ calls = NoCalls
    /\ injected = {}
    /\ session_id = DefaultSession
    /\ conversation_memory = NoSessions
    /\ returned = NotReturned
    /\ previous = NotReturned
    /\ planned = NoPlans
    /\ executed = <<>>
    /\ other = NoOther
    /\ ctx = <<>>

Next == PlanWorkflow \/ WhileTest \/ ExecuteTask \/ CompileFinalOutput

Spec == Init /\ [][Next]_vars

\* The planner alone, as a function of the request.
InitPlan ==
    /\ pc = "plan"
    /\ user_message \in PlannerMessages
    /\ user_images \in PlannerImageLists
    /\ heap = [i \in {} |-> None]
    /\ tasks = <<>>
    /\ remaining_tasks = <<>>
    /\ ready_tasks = <<>>
    /\ idx = 1
    /\ results = <<>>
    /\ call = NoCall
    /\ calls = NoCalls
    /\ injected = {}
    /\ session_id = DefaultSession
    /\ conversation_memory = NoSessions
    /\ returned = NotReturned
    /\ previous = NotReturned
    /\ planned = NoPlans
    /\ executed = <<>>
    /\ other = NoOther
    /\ ctx = <<>>

NextPlan == PlanWorkflow

SpecPlan == InitPlan /\ [][NextPlan]_vars

\* A request without images whose every enabled step is eventually taken: the
\* executor runs on as long as it can.
InitLive == Init /\ user_images = None

LiveSpec == InitLive /\ [][Next]_vars /\ WF_vars(Next)

\* Task lists handed to _execute_workflow directly: any kinds and dependency
\* sets over DirectKinds, cycles, repeated kinds and absent producers included.
DirectKinds == {"ARCHITECTURAL_CONSULTATION", "STYLE_ANALYSIS", "TECHNICAL_REVIEW"}

DirectDependencies ==
    {{}, {"ARCHITECTURAL_CONSULTATION"}, {"TECHNICAL_REVIEW"},
     {"STYLE_ANALYSIS", "TECHNICAL_REVIEW"}}

DirectTasks ==
    {AgentTask(k, MsgPlain, {}, d, 1) : k \in DirectKinds, d \in DirectDependencies}

DirectLists == UNION {[1..n -> DirectTasks] : n \in 0..MaxTasks}

InitDirect ==
    /\ pc = "loop"
    /\ user_message = MsgPlain
    /\ user_images = None
    /\ \E list \in DirectLists :
         /\ heap = [i \in 1..Len(list) |-> list[i]]
         /\ tasks = [i \in 1..Len(list) |-> i]
         /\ remaining_tasks = [i \in 1..Len(list) |-> i]
    /\ ready_tasks = <<>>
    /\ idx = 1
    /\ results = <<>>
    /\ call = NoCall
    /\ calls = NoCalls
    /\ injected = {}
    /\ session_id = DefaultSession
    /\ conversation_memory = (DefaultSession :> NewSession)
    /\ returned = NotReturned
    /\ previous = NotReturned
    /\ planned = NoPlans
    /\ executed = <<>>
    /\ other = NoOther
    /\ ctx = <<>>

NextDirect == WhileTest \/ ExecuteTask

SpecDirect == InitDirect /\ [][NextDirect]_vars

\* _compile_final_output on results maps of any shape: any set of kinds as
\* keys, the texts all agent answers or all agent error strings.
KindOrder ==
    <<"VISION_ANALYSIS", "ARCHITECTURAL_CONSULTATION", "STYLE_ANALYSIS",
      "TECHNICAL_REVIEW", "PROMPT_ENGINEERING", "QUALITY_ASSURANCE">>

AnswerOf(k) == TaskTypeValue(k) \o <<" ">> \o TextOk

ErrorOf(k) ==
    process_request(AgentName(k),
                    [raises |-> TRUE, content |-> None, message |-> ExcTimeout]).value

MapOf(kinds, failed) ==
    LET order == SelectSeq(KindOrder, LAMBDA k : k \in kinds)
    IN  [i \in 1..Len(order) |->
            [key |-> order[i],
             value |-> IF failed THEN ErrorOf(order[i]) ELSE AnswerOf(order[i])]]

ResultMaps == {MapOf(kinds, failed) : kinds \in SUBSET TaskType, failed \in BOOLEAN}

InitCompile ==
    /\ pc = "done"
    /\ user_message = MsgPlain
    /\ user_images = None
    /\ heap = [i \in {} |-> None]
    /\ tasks = <<>>
    /\ remaining_tasks = <<>>
    /\ ready_tasks = <<>>
    /\ idx = 1
    /\ results \in ResultMaps
    /\ call = NoCall
    /\ calls = NoCalls
    /\ injected = {}
    /\ session_id = DefaultSession
    /\ conversation_memory = (DefaultSession :> NewSession)
    /\ returned = NotReturned
    /\ previous = NotReturned
    /\ planned = NoPlans
    /\ executed = <<>>
    /\ other = NoOther
    /\ ctx = <<>>

\* _compile_final_output is handed a second results map.
NextResultsMap ==
    /\ pc = "returned"
    /\ previous = NotReturned
    /\ results' \in ResultMaps
    /\ pc' = "done"
    /\ UNCHANGED <<user_message, user_images, heap, tasks, remaining_tasks,
                   ready_tasks, idx, call, calls, injected, session_id,
                   conversation_memory, returned, previous, planned,
                   executed, other, ctx>>

NextCompile == CompileFinalOutput \/ NextResultsMap

SpecCompile == InitCompile /\ [][NextCompile]_vars

\* Two requests to one orchestrator, in the same session or in two.  Agents
\* answer or fail; their answers suggest no further task.
Sessions == {DefaultSession, "s2"}

SessionMessages == {MsgPlain, MsgModern}

SessionOutcomes ==
    {[raises |-> FALSE, content |-> TextOk, message |-> <<>>],
     [raises |-> TRUE, content |-> None, message |-> ExcTimeout]}

InitSession ==
    /\ pc = "plan"
    /\ user_message \in SessionMessages
    /\ user_images \in ImageLists
    /\ heap = [i \in {} |-> None]
    /\ tasks = <<>>
    /\ remaining_tasks = <<>>
    /\ ready_tasks = <<>>
    /\ idx = 1
    /\ results = <<>>
    /\ call = NoCall
    /\ calls = NoCalls
    /\ injected = {}
    /\ session_id \in Sessions
    /\ conversation_memory = NoSessions
    /\ returned = NotReturned
    /\ previous = NotReturned
    /\ planned = NoPlans
    /\ executed = <<>>
    /\ other = NoOther
    /\ ctx = <<>>

\* ExecuteTask with an agent outcome of SessionOutcomes.
ExecuteTaskSession == ExecuteTask /\ call'.remote \in SessionOutcomes

\* process_request is called a second time, after the first has returned.
NextRequest ==
    /\ pc = "returned"
    /\ previous = NotReturned
    /\ user_message' \in SessionMessages
    /\ user_images' \in ImageLists
    /\ session_id' \in Sessions
    /\ pc' = "plan"
    /\ heap' = [i \in {} |-> None]
    /\ tasks' = <<>>
    /\ remaining_tasks' = <<>>
    /\ ready_tasks' = <<>>
    /\ idx' = 1
    /\ results' = <<>>
    /\ call' = NoCall
    /\ calls' = NoCalls
    /\ injected' = {}
    /\ executed' = <<>>
    /\ UNCHANGED <<conversation_memory, returned, previous, planned, other, ctx>>

NextSession ==
    \/ PlanWorkflow
    \/ WhileTest
    \/ ExecuteTaskSession
    \/ CompileFinalOutput
    \/ NextRequest

SpecSession == InitSession /\ [][NextSession]_vars

\* A request at this position has started its workflow and not returned.
MidFlight(position) == position \in {"loop", "run", "done"}

\* The locals of the request that is running; interleaved: whether the two
\* requests have exchanged places while both were in the middle of a workflow.
Locals ==
    [pc |-> pc, user_message |-> user_message, user_images |-> user_images,
     heap |-> heap, tasks |-> tasks, remaining_tasks |-> remaining_tasks,
     ready_tasks |-> ready_tasks, idx |-> idx, results |-> results,
     call |-> call, calls |-> calls, injected |-> injected,
     session_id |-> session_id, executed |-> executed,
     interleaved |-> other.interleaved \/ (MidFlight(pc) /\ MidFlight(other.pc))]

\* The locals of a request that has called process_request and done nothing yet.
Called(message, images, session) ==
    [pc |-> "plan", user_message |-> message, user_images |-> images,
     heap |-> [i \in {} |-> None], tasks |-> <<>>, remaining_tasks |-> <<>>,
     ready_tasks |-> <<>>, idx |-> 1, results |-> <<>>,
     call |-> NoCall, calls |-> NoCalls, injected |-> {},
     session_id |-> session, executed |-> <<>>, interleaved |-> FALSE]

\* The other request or run goes on and the running one waits: the two exchange
\* places.  What the orchestrator holds (conversation_memory) is shared.
Swap ==
    /\ pc' = other.pc
    /\ user_message' = other.user_message
    /\ user_images' = other.user_images
    /\ heap' = other.heap
    /\ tasks' = other.tasks
    /\ remaining_tasks' = other.remaining_tasks
    /\ ready_tasks' = other.ready_tasks
    /\ idx' = other.idx
    /\ results' = other.results
    /\ call' = other.call
    /\ calls' = other.calls
    /\ injected' = other.injected
    /\ session_id' = other.session_id
    /\ executed' = other.executed
    /\ other' = Locals
    /\ UNCHANGED <<conversation_memory, returned, previous, planned, ctx>>

\* The thread of another request is scheduled: process_request takes no lock,
\* so this can happen between any two steps of a request.
Preempt ==
    /\ other # NoOther
    /\ other.pc \notin {"returned", "raised"}
    /\ Swap

\* Two process_request executions for one session id on one orchestrator, both
\* called before either has taken a step.
InitRace ==
    /\ pc = "plan"
    /\ user_message \in SessionMessages
    /\ user_images \in ImageLists
    /\ heap = [i \in {} |-> None]
    /\ tasks = <<>>
    /\ remaining_tasks = <<>>
    /\ ready_tasks = <<>>
    /\ idx = 1
    /\ results = <<>>
    /\ call = NoCall
    /\ calls = NoCalls
    /\ injected = {}
    /\ session_id = DefaultSession
    /\ conversation_memory = NoSessions
    /\ returned = NotReturned
    /\ previous = NotReturned
    /\ planned = NoPlans
    /\ executed = <<>>
    /\ other \in {Called(message, images, DefaultSession) :
                     message \in SessionMessages, images \in ImageLists}
    /\ ctx = <<>>

NextRace ==
    \/ PlanWorkflow
    \/ WhileTest
    \/ ExecuteTaskSession
    \/ CompileFinalOutput
    \/ Preempt

SpecRace == InitRace /\ [][NextRace]_vars

\* Two runs of _execute_workflow on one orchestrator, one after the other, on
\* two task lists that differ in the priority field only.  An agent gives the
\* same answer whenever it is invoked.
PriorityMessages == {MsgPlain, MsgModern}

\* Other values for the priority field: the order reversed, and every planned
\* task above the priority (5) of an injected one.
PriorityMaps == {[p \in 1..5 |-> 6 - p], [p \in 1..5 |-> p + 5]}

\* The task objects with the priority field changed.
Reprioritised(h, map) == [i \in DOMAIN h |-> [h[i] EXCEPT !.priority = map[@]]]

\* The locals of a run of _execute_workflow on the task objects h, in list
\* order, before the first test of the while-loop.
Entered(message, images, h) ==
    [pc |-> "loop", user_message |-> message, user_images |-> images,
     heap |-> h, tasks |-> [i \in 1..Cardinality(DOMAIN h) |-> i],
     remaining_tasks |-> [i \in 1..Cardinality(DOMAIN h) |-> i],
     ready_tasks |-> <<>>, idx |-> 1, results |-> <<>>,
     call |-> NoCall, calls |-> NoCalls, injected |-> {},
     session_id |-> DefaultSession, executed |-> <<>>, interleaved |-> FALSE]

InitPriority ==
    /\ pc = "loop"
    /\ user_message \in PriorityMessages
    /\ user_images \in ImageLists
    /\ LET list == _plan_workflow(user_message, user_images)
       IN  /\ heap = [i \in 1..Len(list) |-> list[i]]
           /\ tasks = [i \in 1..Len(list) |-> i]
           /\ remaining_tasks = [i \in 1..Len(list) |-> i]
    /\ ready_tasks = <<>>
    /\ idx = 1
    /\ results = <<>>
    /\ call = NoCall
    /\ calls = NoCalls
    /\ injected = {}
    /\ session_id = DefaultSession
    /\ conversation_memory = (DefaultSession :> NewSession)
    /\ returned = NotReturned
    /\ previous = NotReturned
    /\ planned = NoPlans
    /\ executed = <<>>
    /\ other \in {Entered(user_message, user_images, Reprioritised(heap, map)) :
                     map \in PriorityMaps}
    /\ ctx = <<>>

\* ExecuteTask with the agent answering as it did before: the value recorded for
\* the kind is the value recorded for it earlier in this run or in the other.
ExecuteTaskSame ==
    /\ ExecuteTask
    /\ LET kind == call'.task_type
           value == Get(results', kind, None)
       IN  /\ kind \in Keys(results) => value = Get(results, kind, None)
           /\ kind \in Keys(other.results) => value = Get(other.results, kind, None)

\* The first run is over and the second one starts.
SecondRun ==
    /\ pc \in {"done", "raised"}
    /\ other.pc = "loop"
    /\ other.call = NoCall
    /\ Swap

NextPriority == WhileTest \/ ExecuteTaskSame \/ SecondRun

SpecPriority == InitPriority /\ [][NextPriority]_vars

\* _execute_workflow on one task, with image lists of up to four items, some of
\* them not bytes.
AgentImageLists ==
    {None, <<>>, <<"png1">>, <<"png1", "png2", "png3">>,
     <<"png1", "png2", "png3", "png4">>, <<NotBytes>>,
     <<"png1", "png2", "png3", NotBytes>>}

AgentKinds == {"VISION_ANALYSIS", "ARCHITECTURAL_CONSULTATION"}

InitAgent ==
    /\ pc = "loop"
    /\ user_message = MsgPlain
    /\ user_images \in AgentImageLists
    /\ \E kind \in AgentKinds :
         heap = (1 :> AgentTask(kind, MsgPlain, {}, {}, 1))
    /\ tasks = <<1>>
    /\ remaining_tasks = <<1>>
    /\ ready_tasks = <<>>
    /\ idx = 1
    /\ results = <<>>
    /\ call = NoCall
    /\ calls = NoCalls
    /\ injected = {}
    /\ session_id = DefaultSession
    /\ conversation_memory = (DefaultSession :> NewSession)
    /\ returned = NotReturned
    /\ previous = NotReturned
    /\ planned = NoPlans
    /\ executed = <<>>
    /\ other = NoOther
    /\ ctx = <<>>

NextAgent == WhileTest \/ ExecuteTask

SpecAgent == InitAgent /\ [][NextAgent]_vars

\* A request handed to FixedAzureOrchestrator.process_request.
FixedImageLists == {None, <<>>, <<"png1">>, <<"png1", "png2", "png3", "png4">>}

InitFixed ==
    /\ pc = "vision"
    /\ user_message \in SessionMessages
    /\ user_images \in FixedImageLists
    /\ heap = [i \in {} |-> None]
    /\ tasks = <<>>
    /\ remaining_tasks = <<>>
    /\ ready_tasks = <<>>
    /\ idx = 1
    /\ results = <<>>
    /\ call = NoCall
    /\ calls = NoCalls
    /\ injected = {}
    /\ session_id = DefaultSession
    /\ conversation_memory = NoSessions
    /\ returned = NotReturned
    /\ previous = NotReturned
    /\ planned = NoPlans
    /\ executed = <<>>
    /\ other = NoOther
    /\ ctx = <<>>

NextFixed ==
    \/ FixedVisionAnalysis
    \/ FixedConsultation
    \/ FixedPromptEngineering
    \/ FixedQualityAssurance

SpecFixed == InitFixed /\ [][NextFixed]_vars

-----------------------------------------------------------------------------
(* Properties *)

\* The loop of _execute_workflow is over: it returned, or an exception left it.
Finished == pc \in {"done", "raised"}

\* C1: at the moment a task's agent is invoked (the for-loop stands at that task),
\* every TaskType of the task's dependencies is a key of results; the same holds
\* of the tasks of the pass still to be run.
C1_DependenciesProduced ==
    pc = "run" =>
        \A i \in idx..Len(ready_tasks) :
            heap[ready_tasks[i]].dependencies \subseteq Keys(results)

\* C1 witness: a task with two dependencies is about to be invoked.
C1_Witness ==
    /\ pc = "run"
    /\ Cardinality(heap[ready_tasks[idx]].dependencies) = 2
    /\ Len(results) >= 2

\* C2 as claimed: within one run, no agent is invoked more than once.
C2_NoTaskRunsTwice == \A t \in TaskType : calls[t] <= 1

\* C3 as claimed: started from a planner output (an acyclic dependency graph over
\* registered kinds), the while-loop eventually ends, whatever the agents return.
C3_Terminates == <>Finished

\* C4: when _execute_workflow returns, every key of results is the kind of an
\* initial task or of an injected one, and no key occurs twice.
C4_ResultKeys ==
    pc = "done" =>
        /\ Keys(results) \subseteq TypesOf(tasks, heap) \cup injected
        /\ \A i, j \in 1..Len(results) : results[i].key = results[j].key => i = j

\* C4 witness: a run has returned after executing one kind twice and an injected
\* kind.
C4_Witness ==
    /\ pc = "done"
    /\ injected \ TypesOf(tasks, heap) # {}
    /\ \E t \in TaskType : calls[t] >= 2

\* A result recorded for a call that failed: starts with the agent's error marker.
IsErrorString(v) ==
    /\ v # None
    /\ Len(v) >= Len(AgentErrorPrefix)
    /\ SubSeq(v, 1, Len(AgentErrorPrefix)) = AgentErrorPrefix

\* C5: a failing remote call is local to its task.  After the call, no exception
\* has left the loop, the kind is a key of results with a non-empty string that
\* carries the failure, the other tasks of the pass are still run (those not yet
\* run are still remaining, and a pass that ended has run them all); a task that
\* depends on a failed kind is called with the error string in its context; and
\* no task that depends on a failed kind is left behind when the workflow returns.
C5_FailureIsLocal ==
    /\ call.remote.raises =>
          /\ pc # "raised"
          /\ call.task_type \in Keys(results)
          /\ LET v == Get(results, call.task_type, None)
             IN  v # None /\ v # <<>> /\ Contains(call.remote.message, v)
          /\ pc = "run" =>
                \A i \in idx..Len(ready_tasks) :
                    /\ ready_tasks[i] \in Elems(remaining_tasks)
                    /\ ~heap[ready_tasks[i]].completed
          /\ pc = "loop" =>
                \A i \in 1..Len(ready_tasks) : heap[ready_tasks[i]].completed
    /\ \A d \in call.dependencies \ {call.task_type} :
          IsErrorString(Get(results, d, None)) =>
              Contains(Get(results, d, None), call.context)
    /\ pc = "done" =>
          \A i \in 1..Len(remaining_tasks) :
              \A d \in heap[remaining_tasks[i]].dependencies :
                  ~IsErrorString(Get(results, d, None))

\* C5 witness: the workflow has returned; prompt engineering failed, and quality
\* assurance, which depends on it, was then called with the error string in its
\* context.
C5_Witness ==
    /\ pc = "done"
    /\ IsErrorString(Get(results, "PROMPT_ENGINEERING", None))
    /\ call.task_type = "QUALITY_ASSURANCE"
    /\ "PROMPT_ENGINEERING" \in call.dependencies
    /\ Contains(Get(results, "PROMPT_ENGINEERING", None), call.context)

\* C6 as claimed: no exception leaves the step that executes a task, and every
\* recorded result is a string.
C6_NoExceptionEscapes ==
    /\ pc # "raised"
    /\ \A i \in 1..Len(results) : results[i].value # None

\* Tasks remain and none of them has all its dependencies among the keys.
Deadlocked ==
    /\ pc = "loop"
    /\ remaining_tasks # <<>>
    /\ \A i \in 1..Len(remaining_tasks) :
          ~(heap[remaining_tasks[i]].dependencies \subseteq Keys(results))

\* C7: in a deadlock the loop stops and the function returns without raising,
\* with results, the remaining tasks and the invocation counts as they were; and
\* a task left behind at the return was never executed.
C7_DeadlockPolicy ==
    /\ [][Deadlocked =>
            /\ pc' = "done"
            /\ UNCHANGED <<results, remaining_tasks, calls>>]_vars
    /\ [](pc = "done" =>
            \A i \in 1..Len(remaining_tasks) : ~heap[remaining_tasks[i]].completed)

\* C7 witness: the function has returned after a deadlock, with some results and
\* a task left behind.
C7_Witness ==
    /\ pc = "done"
    /\ remaining_tasks # <<>>
    /\ results # <<>>

\* The planner emitted a technical-review task.
TechnicalReviewPlanned ==
    \E i \in 1..Len(tasks) : heap[tasks[i]].task_type = "TECHNICAL_REVIEW"

\* Consultation's recorded result is the response text that contains "technical
\* review" (in capitals), and no technical-review task was planned.
ConsultationSuggestsReview ==
    /\ Get(results, "ARCHITECTURAL_CONSULTATION", None) = TextTech
    /\ ~TechnicalReviewPlanned

\* A technical-review task with dependencies deps is in remaining_tasks.
ReviewPending(deps) ==
    \E i \in 1..Len(remaining_tasks) :
        /\ heap[remaining_tasks[i]].task_type = "TECHNICAL_REVIEW"
        /\ heap[remaining_tasks[i]].dependencies = deps

\* C8 as claimed: once consultation's result suggests a technical review that was
\* not planned, a technical-review task depending on consultation is in the
\* remaining set, and TECHNICAL_REVIEW is a key of the results returned.
C8_InjectedDependsOnConsultation ==
    ConsultationSuggestsReview =>
        /\ call.task_type = "ARCHITECTURAL_CONSULTATION" =>
              ReviewPending({"ARCHITECTURAL_CONSULTATION"})
        /\ pc = "done" =>
              "TECHNICAL_REVIEW" \in Keys(results) /\ calls["TECHNICAL_REVIEW"] >= 1

\* C8 amended: once consultation's result suggests a technical review that was
\* not planned, a technical-review task is in the remaining set, depending on
\* consultation or, when vision analysis had already suggested it, on vision
\* analysis; and TECHNICAL_REVIEW is a key of the results returned.
C8_ReviewInjectedAndExecuted ==
    ConsultationSuggestsReview =>
        /\ call.task_type = "ARCHITECTURAL_CONSULTATION" =>
              \/ ReviewPending({"ARCHITECTURAL_CONSULTATION"})
              \/ /\ ReviewPending({"VISION_ANALYSIS"})
                 /\ Contains(PhraseTechnicalReview,
                             lower(Str(Get(results, "VISION_ANALYSIS", None))))
        /\ pc = "done" =>
              "TECHNICAL_REVIEW" \in Keys(results) /\ calls["TECHNICAL_REVIEW"] >= 1

\* C8 witness: the workflow has returned after consultation suggested a technical
\* review that was not planned, and the injected task has run.
C8_Witness ==
    /\ pc = "done"
    /\ ConsultationSuggestsReview
    /\ "TECHNICAL_REVIEW" \in injected
    /\ "TECHNICAL_REVIEW" \in Keys(results)

\* The planner has returned: tasks holds its list.
Planned == pc # "plan"

\* The request came with at least one image.
ImagesSupplied == user_images # None /\ Len(user_images) >= 1

\* The planned tasks of kind t (positions in the list).
PlannedOfKind(t) == {i \in 1..Len(tasks) : heap[tasks[i]].task_type = t}

\* Exactly one task of kind t is planned, and its dependencies are deps.
PlannedOnce(t, deps) ==
    /\ Cardinality(PlannedOfKind(t)) = 1
    /\ \A i \in PlannedOfKind(t) : heap[tasks[i]].dependencies = deps

\* C9: the plan holds a vision-analysis task, without dependencies, iff images
\* are supplied; and always exactly one consultation task (depending on vision
\* analysis iff images are supplied), one prompt-engineering task depending on
\* consultation and one quality-assurance task depending on prompt engineering.
C9_CoreTasks ==
    Planned =>
        /\ IF ImagesSupplied
           THEN PlannedOnce("VISION_ANALYSIS", {})
           ELSE PlannedOfKind("VISION_ANALYSIS") = {}
        /\ PlannedOnce("ARCHITECTURAL_CONSULTATION",
                       IF ImagesSupplied THEN {"VISION_ANALYSIS"} ELSE {})
        /\ PlannedOnce("PROMPT_ENGINEERING", {"ARCHITECTURAL_CONSULTATION"})
        /\ PlannedOnce("QUALITY_ASSURANCE", {"PROMPT_ENGINEERING"})

\* C9 witness: a request with two images has been planned.
C9_Witness ==
    /\ Planned
    /\ user_images = <<"png1", "png2">>
    /\ PlannedOnce("VISION_ANALYSIS", {})

\* The words that hold a style keyword, and those that hold a technical keyword,
\* whatever their case.
StyleWords == {WordModern, WordStyle, WordPeriodic}

TechnicalWords == {WordDecode, WordStructural}

\* Whether the message, read by a person, holds a style or a technical keyword.
ExpectStyle ==
    \/ user_message \in {MsgModern, MsgBoth}
    \/ \E a, b \in Words :
          user_message = a \o <<" ">> \o b /\ (a \in StyleWords \/ b \in StyleWords)

ExpectTechnical ==
    \/ user_message \in {MsgStructural, MsgBoth}
    \/ \E a, b \in Words :
          user_message = a \o <<" ">> \o b
          /\ (a \in TechnicalWords \/ b \in TechnicalWords)

\* The kinds and dependencies of the planned tasks, in list order.
PlanShape == [i \in 1..Len(tasks) |->
                 <<heap[tasks[i]].task_type, heap[tasks[i]].dependencies>>]

\* C10: the plan holds a style-analysis task iff the message holds a style
\* keyword in any case (depending on vision analysis iff images are supplied), a
\* technical-review task iff it holds a technical keyword (depending on
\* consultation), and nothing else beside the core tasks; "Design a modern house"
\* without images gives consultation, prompt engineering, quality assurance and a
\* style analysis without dependencies.
C10_OptionalTasks ==
    Planned =>
        /\ IF ExpectStyle
           THEN PlannedOnce("STYLE_ANALYSIS",
                            IF ImagesSupplied THEN {"VISION_ANALYSIS"} ELSE {})
           ELSE PlannedOfKind("STYLE_ANALYSIS") = {}
        /\ IF ExpectTechnical
           THEN PlannedOnce("TECHNICAL_REVIEW", {"ARCHITECTURAL_CONSULTATION"})
           ELSE PlannedOfKind("TECHNICAL_REVIEW") = {}
        /\ Len(tasks) = 3 + (IF ImagesSupplied THEN 1 ELSE 0)
                           + (IF ExpectStyle THEN 1 ELSE 0)
                           + (IF ExpectTechnical THEN 1 ELSE 0)
        /\ (user_message = MsgModern /\ ~ImagesSupplied) =>
              PlanShape = << <<"ARCHITECTURAL_CONSULTATION", {}>>,
                             <<"PROMPT_ENGINEERING", {"ARCHITECTURAL_CONSULTATION"}>>,
                             <<"QUALITY_ASSURANCE", {"PROMPT_ENGINEERING"}>>,
                             <<"STYLE_ANALYSIS", {}>> >>

\* C10 witness: a message whose keywords are in capitals (style) and inside a
\* longer word (technical) has been planned, with both optional tasks.
C10_Witness ==
    /\ Planned
    /\ user_message = WordStyle \o <<" ">> \o WordDecode
    /\ PlannedOfKind("STYLE_ANALYSIS") # {}
    /\ PlannedOfKind("TECHNICAL_REVIEW") # {}

\* x <= y
FloatLeq(x, y) == ~FloatLess(y, x)

Compiled == pc = "returned"

CompiledTwice == pc = "returned" /\ previous # NotReturned

ScoreOf(value) == value.final_output.confidence_score

BonusKinds == {"STYLE_ANALYSIS", "TECHNICAL_REVIEW"}

\* C12: the confidence of a compiled results map is within [0.0, 1.0], is the
\* base (0.6 below 3 keys, 0.8 from 3 keys on) when no bonus kind is a key, and
\* is exactly 0.9 when the map has at least 3 keys, both bonus kinds among them.
C12_ConfidenceValue ==
    Compiled =>
        LET keys == Keys(results)
            score == ScoreOf(returned)
        IN  /\ score.mant[1] = 1
            /\ FloatLeq(score, Float_1_0)
            /\ keys \cap BonusKinds = {} =>
                 score = IF Cardinality(keys) < 3 THEN Float_0_6 ELSE Float_0_8
            /\ Cardinality(keys) >= 3 /\ BonusKinds \subseteq keys =>
                 score = Float_0_9

\* C13: when the keys of one compiled results map are among the keys of the
\* next, the first confidence is at most the second, which is at most 1.0.
C13_ConfidenceMonotone ==
    (CompiledTwice /\ Keys(previous.all_results) \subseteq Keys(results)) =>
        /\ FloatLeq(ScoreOf(previous), ScoreOf(returned))
        /\ FloatLeq(ScoreOf(returned), Float_1_0)

C13_Witness ==
    /\ CompiledTwice
    /\ Keys(previous.all_results) \subseteq Keys(results)
    /\ Keys(previous.all_results) # Keys(results)
    /\ FloatLess(ScoreOf(previous), ScoreOf(returned))

\* C14: compiling the empty results map gives six empty text fields, an empty
\* workflow_executed and confidence 0.6.
C14_EmptyResults ==
    (Compiled /\ results = <<>>) =>
        LET out == returned.final_output
        IN  /\ out.architectural_analysis = <<>>
            /\ out.expert_consultation = <<>>
            /\ out.style_analysis = <<>>
            /\ out.technical_review = <<>>
            /\ out.optimized_prompt = <<>>
            /\ out.quality_review = <<>>
            /\ out.workflow_executed = <<>>
            /\ out.confidence_score = Float_0_6

C14_Witness ==
    /\ Compiled
    /\ results = <<>>
    /\ returned.all_results = <<>>

\* The field of final_output that belongs to a kind.
FieldOf(out, kind) ==
    CASE kind = "VISION_ANALYSIS" -> out.architectural_analysis
      [] kind = "ARCHITECTURAL_CONSULTATION" -> out.expert_consultation
      [] kind = "STYLE_ANALYSIS" -> out.style_analysis
      [] kind = "TECHNICAL_REVIEW" -> out.technical_review
      [] kind = "PROMPT_ENGINEERING" -> out.optimized_prompt
      [] kind = "QUALITY_ASSURANCE" -> out.quality_review

KindFields ==
    {"architectural_analysis", "expert_consultation", "style_analysis",
     "technical_review", "optimized_prompt", "quality_review"}

\* C15: every compiled final_output has the six kind fields; a kind's field
\* holds the text recorded for the kind, or the empty string when the kind is
\* not a key of the results map.
C15_FieldPerKind ==
    Compiled =>
        /\ KindFields \subseteq DOMAIN returned.final_output
        /\ \A kind \in TaskType :
             IF \E i \in 1..Len(results) : results[i].key = kind
             THEN \E i \in 1..Len(results) :
                     /\ results[i].key = kind
                     /\ FieldOf(returned.final_output, kind) = results[i].value
             ELSE FieldOf(returned.final_output, kind) = <<>>

C15_Witness ==
    /\ Compiled
    /\ "STYLE_ANALYSIS" \in Keys(results)
    /\ "TECHNICAL_REVIEW" \notin Keys(results)
    /\ IsErrorText(returned.final_output.style_analysis)
    /\ returned.final_output.technical_review = <<>>

\* C20: two compiled results maps with the same keys have the same confidence,
\* whatever their texts.
C20_ConfidenceIgnoresTexts ==
    (CompiledTwice /\ Keys(previous.all_results) = Keys(results)) =>
        ScoreOf(previous) = ScoreOf(returned)

C20_Witness ==
    /\ CompiledTwice
    /\ Keys(previous.all_results) = Keys(results)
    /\ Cardinality(Keys(results)) >= 3
    /\ \A i \in 1..Len(results) :
         /\ IsErrorText(results[i].value)
         /\ ~IsErrorText(previous.all_results[i].value)
    /\ ScoreOf(previous) = ScoreOf(returned)

\* _plan_workflow has just returned and nothing has been executed yet.
JustPlanned == pc = "loop" /\ call = NoCall /\ results = <<>>

C16_SessionInherits ==
    (pc \in {"loop", "run", "done"} /\ call # NoCall) =>
        LET earlier == conversation_memory[session_id].agent_outputs
        IN  \A i \in 1..Len(earlier) :
              /\ Contains(earlier[i].value, SessionContext)
              /\ Contains(earlier[i].value, call.context)

\* The label that starts the context line of a kind.
LineLabel(kind) == <<"\n">> \o TaskTypeValue(kind) \o <<":", " ">>

\* The total length of the context lines of the kinds in S.
RECURSIVE LinesLength(_, _)
LinesLength(S, res) ==
    IF S = {}
    THEN 0
    ELSE LET kind == CHOOSE k \in S : TRUE
         IN  Len(DependencyLine(kind, res)) + LinesLength(S \ {kind}, res)

\* C17: the context an executed task's agent receives starts with the session
\* context, contains the line of each declared dependency with the output
\* recorded for it, contains the line of no other recorded kind, and is no
\* longer than the session context and those lines together.
C17_ContextOfDependencies ==
    [][pc = "run" =>
         LET task == heap[ready_tasks[idx]]
             context == call'.context
         IN  /\ Len(context) >= Len(SessionContext)
             /\ SubSeq(context, 1, Len(SessionContext)) = SessionContext
             /\ \A dep \in task.dependencies :
                  Contains(DependencyLine(dep, results), context)
             /\ \A kind \in Keys(results) \ task.dependencies :
                  ~Contains(LineLabel(kind), context)
             /\ Len(context) =
                  Len(SessionContext) + LinesLength(task.dependencies, results)]_vars

\* A task with two declared dependencies has been executed, with both lines in
\* its context, while a kind it does not depend on had a recorded result: its
\* own kind, run before.
C17_Witness ==
    /\ call # NoCall
    /\ Cardinality(call.dependencies) = 2
    /\ \A dep \in call.dependencies : Contains(LineLabel(dep), call.context)
    /\ call.task_type \notin call.dependencies
    /\ calls[call.task_type] >= 2

\* The tasks the step appends to remaining_tasks.
Appended == Elems(remaining_tasks') \ Elems(remaining_tasks)

\* C18: every task a step of the executor appends depends on exactly the kind
\* of the task just executed and has priority 5, above every priority of the
\* planned list; its kind is not the kind of the task just executed and not the
\* kind of any task that was in remaining_tasks.
C18_InjectedTaskShape ==
    [][pc = "run" =>
         LET source == heap[ready_tasks[idx]].task_type
             first == planned[<<user_message, user_images>>]
         IN  \A id \in Appended :
               /\ heap'[id].dependencies = {source}
               /\ heap'[id].priority = 5
               /\ \A i \in 1..Len(first) :
                    first[i].priority \in 1..4 /\ first[i].priority < heap'[id].priority
               /\ heap'[id].task_type # source
               /\ heap'[id].task_type \notin TypesOf(remaining_tasks, heap)]_vars

\* The consultation's result named style analysis and the executor appended a
\* style-analysis task for it, while the planned priority-4 task still waits.
C18_Witness ==
    /\ pc \in {"run", "loop"}
    /\ call # NoCall
    /\ call.remote.content = TextStyle
    /\ call.task_type = "ARCHITECTURAL_CONSULTATION"
    /\ \E i \in 1..Len(remaining_tasks) :
         LET task == heap[remaining_tasks[i]]
         IN  /\ task.task_type = "STYLE_ANALYSIS"
             /\ task.priority = 5
             /\ task.dependencies = {"ARCHITECTURAL_CONSULTATION"}
    /\ \E i \in 1..Len(remaining_tasks) : heap[remaining_tasks[i]].priority = 4

\* C19: an agent call carries images only if the task executed is of kind
\* VISION_ANALYSIS; every other call is made without images.
C19_ImagesOnlyForVision ==
    call # NoCall =>
        /\ call.task_type # "VISION_ANALYSIS" => call.images = None
        /\ call.images # None =>
             call.task_type = "VISION_ANALYSIS" /\ call.images = user_images

\* Images came with the request, the vision task had them, and the latest call,
\* for a task added by dynamic routing, has none.
C19_Witness ==
    /\ Truthy(user_images)
    /\ calls["VISION_ANALYSIS"] >= 1
    /\ call # NoCall
    /\ call.task_type \in injected
    /\ call.task_type # "VISION_ANALYSIS"
    /\ call.images = None

\* C21: the set of session ids in conversation_memory only grows and holds the
\* id of every request past its first step; only compiling changes an entry's
\* agent_outputs, and only that of the request's session; and once a workflow
\* is compiled the entry of its session holds its results map as agent_outputs.
C21_SessionLifecycle ==
    /\ [][/\ DOMAIN conversation_memory \subseteq DOMAIN conversation_memory'
          /\ \A s \in DOMAIN conversation_memory :
               (pc # "done" \/ s # session_id) =>
                   conversation_memory'[s].agent_outputs
                     = conversation_memory[s].agent_outputs]_vars
    /\ [](pc # "plan" => session_id \in DOMAIN conversation_memory)
    /\ [](pc = "returned" =>
            conversation_memory[session_id].agent_outputs = results)

\* Two requests in two sessions have been compiled: both entries exist, each
\* with the results map of its own workflow.
C21_Witness ==
    /\ pc = "returned"
    /\ previous # NotReturned
    /\ DOMAIN conversation_memory = Sessions
    /\ results # <<>>
    /\ conversation_memory[session_id].agent_outputs = results
    /\ \E s \in Sessions \ {session_id} :
         /\ conversation_memory[s].agent_outputs = previous.all_results
         /\ previous.all_results # results

\* Both requests served so far were for the session of the latest one.
SameSessionTwice ==
    /\ pc = "returned"
    /\ previous # NotReturned
    /\ DOMAIN conversation_memory = {session_id}

\* C22: after the second workflow of a session is compiled, every output the
\* first workflow stored is still in the session entry.
C22_OutputsAppended ==
    SameSessionTwice =>
        \A i \in 1..Len(previous.all_results) :
          \E j \in 1..Len(conversation_memory[session_id].agent_outputs) :
            conversation_memory[session_id].agent_outputs[j] = previous.all_results[i]

\* C24: in a compiled output workflow_executed is the list of the TaskTypes whose
\* agents were invoked in the run, each listed once, in the order in which they
\* were first invoked, and agent_collaboration and intelligent_routing are true.
C24_WorkflowExecuted ==
    Compiled =>
        LET out == returned.final_output
        IN  /\ out.workflow_executed = executed
            /\ Elems(out.workflow_executed) = {k \in TaskType : calls[k] >= 1}
            /\ \A i, j \in 1..Len(out.workflow_executed) :
                 out.workflow_executed[i] = out.workflow_executed[j] => i = j
            /\ out.agent_collaboration = TRUE
            /\ out.intelligent_routing = TRUE

\* A compiled run in which a task was injected and one kind's agent was invoked
\* twice: the kind is listed once, where it was first invoked.
C24_Witness ==
    /\ Compiled
    /\ injected # {}
    /\ \E k \in TaskType : calls[k] >= 2
    /\ Len(executed) >= 4
    /\ returned.final_output.workflow_executed = executed

\* C25: at every point of _execute_workflow started from a planner output, no
\* two tasks of remaining_tasks have the same TaskType.
C25_OnePerKind ==
    pc \in {"loop", "run", "done", "raised"} =>
        \A i, j \in 1..Len(remaining_tasks) :
            heap[remaining_tasks[i]].task_type = heap[remaining_tasks[j]].task_type
                => i = j

\* Consultation and style analysis ran in the same pass and the answers of both
\* suggest a technical review: one TECHNICAL_REVIEW task is in remaining_tasks.
C25_Witness ==
    /\ pc \in {"loop", "run"}
    /\ executed = <<"ARCHITECTURAL_CONSULTATION", "STYLE_ANALYSIS">>
    /\ \A k \in Elems(executed) :
         "TECHNICAL_REVIEW" \in Elems(_parse_routing_suggestions(Get(results, k, <<>>), k))
    /\ injected = {"TECHNICAL_REVIEW"}
    /\ Cardinality({i \in 1..Len(remaining_tasks) :
                      heap[remaining_tasks[i]].task_type = "TECHNICAL_REVIEW"}) = 1

\* The place of a kind in the order of first invocation (0: not invoked).
PlaceOf(kind) ==
    IF kind \in Elems(executed)
    THEN CHOOSE i \in 1..Len(executed) : executed[i] = kind
    ELSE 0

\* The pipeline of the planner, in its order.
CoreOrder == <<"VISION_ANALYSIS", "ARCHITECTURAL_CONSULTATION",
               "PROMPT_ENGINEERING", "QUALITY_ASSURANCE">>

\* No planned task is left in remaining_tasks, every planned kind is a key of
\* results, and the planned kinds of the pipeline were invoked in its order.
PlannedAllExecuted ==
    /\ Elems(remaining_tasks) \cap Elems(tasks) = {}
    /\ TypesOf(tasks, heap) \subseteq Keys(results)
    /\ \A i, j \in 1..Len(CoreOrder) :
         (i < j /\ {CoreOrder[i], CoreOrder[j]} \subseteq TypesOf(tasks, heap)) =>
             (0 < PlaceOf(CoreOrder[i]) /\ PlaceOf(CoreOrder[i]) < PlaceOf(CoreOrder[j]))

\* C26: whatever the agents return, when _execute_workflow is over every planned
\* task has been executed, vision analysis before consultation before prompt
\* engineering before quality assurance, and results holds every planned kind.
C26_PlannedTasksExecuted == Finished => PlannedAllExecuted

\* The same, of the workflows that return.
PlannedExecutedOnReturn == pc = "done" => PlannedAllExecuted

\* C27: ready_tasks is fixed when a pass starts, as the remaining tasks whose
\* dependencies are then all keys of results; each step of the pass executes the
\* next task of that list and leaves the list as it is, and no task the step
\* appends to remaining_tasks is in it.
C27_ReadySnapshot ==
    [][/\ (pc = "loop" /\ pc' = "run") =>
             /\ Elems(ready_tasks') =
                   {t \in Elems(remaining_tasks) :
                       heap[t].dependencies \subseteq Keys(results)}
             /\ idx' = 1
       /\ pc = "run" =>
             /\ ready_tasks' = ready_tasks
             /\ call'.task_type = heap[ready_tasks[idx]].task_type
             /\ Appended \cap Elems(ready_tasks') = {}
             /\ IF idx < Len(ready_tasks)
                THEN pc' \in {"run", "raised"} /\ (pc' = "run" => idx' = idx + 1)
                ELSE pc' \in {"loop", "raised"}]_vars

\* The tasks of remaining_tasks that are not in the list of the pass although
\* their dependencies are all keys of results.
ReadyLater ==
    {t \in Elems(remaining_tasks) \ Elems(ready_tasks) :
        heap[t].dependencies \subseteq Keys(results)}

\* In the middle of a pass a task appended during the pass and a planned task
\* whose last dependency completed during the pass wait for a later pass.
C27_Witness ==
    /\ pc = "run"
    /\ call # NoCall
    /\ \E t \in ReadyLater : heap[t].priority = 5
    /\ \E t \in ReadyLater : heap[t].priority # 5

\* Both requests have returned.
BothReturned == pc = "returned" /\ other.pc = "returned"

\* C23: nothing serialises two overlapping requests of one session: however
\* their steps interleave, once both have returned the session entry holds the
\* results map of the request that compiled last, whole, and nothing else.
C23_LastCompileWins ==
    BothReturned =>
        /\ conversation_memory[session_id].agent_outputs = returned.all_results
        /\ conversation_memory[session_id].agent_outputs \in {results, other.results}
        /\ previous.all_results \in {results, other.results}

\* Both requests have returned after exchanging places in the middle of their
\* workflows: the entry holds the results of one of them and the output the
\* other had for its style analysis is stored nowhere.
C23_Witness ==
    /\ BothReturned
    /\ other.interleaved
    /\ session_id = other.session_id
    /\ conversation_memory[session_id].agent_outputs = results
    /\ other.results # results
    /\ "STYLE_ANALYSIS" \in Keys(other.results)
    /\ "STYLE_ANALYSIS" \notin Keys(conversation_memory[session_id].agent_outputs)

\* Both runs of _execute_workflow are over.
BothFinished == Finished /\ other.pc \in {"done", "raised"}

\* C28: two runs of _execute_workflow on task lists that differ in the priority
\* field only, with agents that answer the same, end the same way with the same
\* results map, the same kinds invoked in the same order and as often.
C28_PriorityIgnored ==
    BothFinished =>
        /\ pc = other.pc
        /\ results = other.results
        /\ executed = other.executed
        /\ calls = other.calls
        /\ injected = other.injected

\* Both runs are over, on lists whose priorities differ, with the same results;
\* in both the injected technical review, of priority 5, was invoked before the
\* planned quality assurance task, whatever priority that task had.
C28_Witness ==
    /\ BothFinished
    /\ \E i \in 1..Len(tasks) :
         heap[tasks[i]].priority # other.heap[other.tasks[i]].priority
    /\ results = other.results
    /\ "TECHNICAL_REVIEW" \in injected
    /\ 0 < PlaceOf("TECHNICAL_REVIEW")
    /\ PlaceOf("TECHNICAL_REVIEW") < PlaceOf("QUALITY_ASSURANCE")
    /\ executed = other.executed

\* text begins with prefix.
BeginsWith(text, prefix) ==
    /\ text # None
    /\ Len(text) >= Len(prefix)
    /\ SubSeq(text, 1, Len(prefix)) = prefix

\* C30: whatever happens inside the agent (building the messages raises, the
\* chat-completion call raises, or it answers) the value recorded for the task
\* is what the agent returned: for an exception the string made of the error
\* marker, the agent's name and the exception's message, never the executor's
\* own "Error: " string, and the content of the response otherwise; and the
\* request carries the first three images of the list at most.
C30_AgentNeverRaises ==
    call # NoCall =>
        LET value == Get(results, call.task_type, None)
        IN  /\ call.remote.raises =>
                 /\ value = AgentErrorPrefix \o AgentName(call.task_type)
                               \o <<":", " ">> \o call.remote.message
                 /\ ~BeginsWith(value, ExecutorErrorPrefix)
            /\ ~call.remote.raises => value = call.remote.content
            /\ Len(call.sent) <= 3
            /\ \A i \in 1..Len(call.sent) : call.sent[i] = call.images[i]
            /\ (Truthy(call.images) /\ call.remote.message # ExcNotBytes) =>
                   (Len(call.sent) = 3 \/ call.sent = call.images)

\* The vision agent was called with four images, sent three of them, and the
\* chat-completion call failed: the error string of the agent is recorded.
C30_Witness ==
    /\ call # NoCall
    /\ call.task_type = "VISION_ANALYSIS"
    /\ Len(call.images) = 4
    /\ Len(call.sent) = 3
    /\ call.remote.raises
    /\ call.remote.message = ExcTimeout
    /\ BeginsWith(Get(results, "VISION_ANALYSIS", None), AgentErrorPrefix \o NameVision)

\* FixedAzureOrchestrator.process_request returned its results.
FixedSucceeded == pc = "returned" /\ "error" \notin DOMAIN returned

\* It returned the dict of its except branch.
FixedFailed == pc = "returned" /\ "error" \in DOMAIN returned

\* What the agent of the latest call returned.
LatestAnswer ==
    IF call.remote.raises
    THEN AgentErrorPrefix \o NameQualityAssurance \o <<":", " ">> \o call.remote.message
    ELSE call.remote.content

\* C29: the steps run are a prefix of vision analysis (with images only),
\* consultation, prompt engineering, quality assurance; the context of each
\* agent call contains the result of every step run before it; a returned
\* result without 'error' comes after all the steps, and its final_output holds
\* the results of the four steps and the confidence 0.9; a step that raises gives
\* the result with 'error', whose final_output has the confidence 0.0 and the
\* user message as optimized_prompt.
C29_FixedSequence ==
    /\ Len(executed) <= Len(StepsFor(user_images))
    /\ \A i \in 1..Len(executed) : executed[i] = StepsFor(user_images)[i]
    /\ \A i \in 1..(Len(executed) - 1) :
         Contains(Str(Get(results, executed[i], None)), call.context)
    /\ FixedSucceeded =>
         /\ executed = StepsFor(user_images)
         /\ DOMAIN returned = Keys(results) \cup {"final_output"}
         /\ returned.final_output.architectural_analysis =
               (IF Truthy(user_images) THEN Get(results, "vision_analysis", None)
                                       ELSE <<>>)
         /\ returned.final_output.expert_consultation =
               Get(results, "architectural_consultation", None)
         /\ returned.final_output.optimized_prompt = Get(results, "flux_prompt", None)
         /\ returned.final_output.quality_review = LatestAnswer
         /\ returned.final_output.confidence_score = Float_0_9
    /\ FixedFailed =>
         /\ executed # StepsFor(user_images)
         /\ returned.final_output.confidence_score = Float_0_0
         /\ returned.final_output.optimized_prompt = user_message

\* A request with images went through the four steps and returned its results:
\* the quality assurance agent had the three earlier results in its context.
C29_Witness ==
    /\ FixedSucceeded
    /\ Truthy(user_images)
    /\ executed = FixedSteps
    /\ \A i \in 1..3 : Contains(Get(results, FixedSteps[i], None), call.context)
    /\ Get(results, "vision_analysis", None) # Get(results, "flux_prompt", None)
    /\ returned.final_output.confidence_score = Float_0_9

====
